---- MODULE Spec2Model ----
(***************************************************************************)
(* Value separation policies of the compaction write path                  *)
(* (value_separation.go): writeNewBlobFiles and preserveBlobReferences;    *)
(* the sstable footer (readFooter, parseFooter); the external iterator as  *)
(* the data-driven test drives it (runIterCmd, testdata/external_iterator).*)
(*                                                                         *)
(* A value is modelled by its length, a user key by a (prefix, suffix)     *)
(* pair ordered by the comparer, a blob file by the number and the total   *)
(* length of the values appended to it, and the sstable.RawWriter handed   *)
(* to Add by the last call made on it for the output being written.  Every *)
(* call of a collaborator that can fail (kv.Value, the short attribute     *)
(* extractor, newBlobObject, the sstable writer, FileWriter.Close) has     *)
(* both outcomes.                                                          *)
(***************************************************************************)
EXTENDS Integers, Sequences, FiniteSets, TLC

\* ------------------------------------------------------------------ bounds
\* Value lengths range over 0..MaxLen.
MaxLen == 1
\* Key prefixes range over 1..MaxPrefix.
MaxPrefix == 2
\* Number of Add/FinishOutput calls the compaction makes on its policy.
MaxOps == 3
\* Blob file numbers of the compaction's inputs range over 1..MaxFile.
MaxFile == 2

\* --------------------------------------------------------------- variables
VARIABLES
    \* the compaction writing one output after the other
    tw,                         \* the last call made on the output's RawWriter
    lastKey,                    \* the last user key the compaction handed to Add
    ret,                        \* the last call made on the policy and its outcome
    meta,                       \* what the last FinishOutput returned
    ops,                        \* number of calls made so far
    \* writeNewBlobFiles
    minimumSize,                \* vs.minimumSize
    requiredInPlaceValueBound,  \* vs.requiredInPlaceValueBound
    shortAttrExtractor,         \* vs.shortAttrExtractor # nil
    writer,                     \* vs.writer: NilWriter or an index of blobFiles
    objMeta,                    \* vs.objMeta.DiskFileNum
    blobFiles,                  \* the blob objects created by newBlobObject
    cfgBound,                   \* the bound the policy was configured with
    newBlobCalls,               \* newBlobObject calls since the last FinishOutput
    newBlobCreated,             \* ... of which succeeded
    sepValues,                  \* values appended to a blob file since then
    sepBytes,                   \* ... and their total length
    \* preserveBlobReferences
    inputBlobMetadatas,         \* vs.inputBlobMetadatas, sorted by FileNum
    outputBlobReferenceDepth,   \* vs.outputBlobReferenceDepth
    currReferences,             \* vs.currReferences
    totalValueSize,             \* vs.totalValueSize
    written,                    \* the blob handles handed to the output's writer
    added,                      \* per blob file, the ValueLen of the handles the writer took
    \* the sstable reader opening a file
    file,                       \* the file readFooter is given
    foot,                       \* what readFooter returned
    footDone,                   \* readFooter has returned
    encFooter,                  \* the footer a writer hands to footer.encode
    \* the external iterator of an iter command of the test
    block,                      \* the iter command: an index of Blocks
    cursor,                     \* where the iterator stands
    iterValidityState,          \* Iterator.iterValidityState
    rangeKey,                   \* the range-key span of the position
    rangeKeyChanged,            \* Iterator.RangeKeyChanged()
    prefixMode,                 \* the prefix of a prefix iteration, or ""
    cmd,                        \* the last line of the command that was run
    out,                        \* what runIterCmd printed for it
    merged,                     \* the merged view of the iterator's files
    iterOpts,                   \* iter.opts: key types and bounds
    optViews,                   \* the merged view under each set of options
    step,                       \* lines of the block's script followed so far
    \* the version set of a DB and the define command building its LSM
    logSeqNum,                  \* d.mu.versions.logSeqNum
    visibleSeqNum,              \* d.mu.versions.visibleSeqNum
    currentVersion,             \* d.mu.versions.currentVersion()
    level,                      \* the level of the line being defined, or -1
    mem,                        \* the keys set in the memtable of that line
    boundStart,                 \* start: the start= of the line, or nil
    boundEnd,                   \* end: the end= of the line, or nil
    veNewFiles,                 \* ve.NewFiles
    largestSeqNum,              \* largestSeqNum of the flush being made
    flushes,                    \* flushes started, of which ...
    flushFailed,                \* ... one returned an error
    nlines,                     \* lines of td.Input read so far
    dpc,                        \* where the define command stands
    derr,                       \* the error the define command returned
    \* the jobs that apply version edits, and a reader
    logLockHolder,              \* the job holding the version set's log lock
    apc,                        \* where each job stands in logAndApply
    abase,                      \* the version each job's edit is applied to
    anew,                       \* the version each job computed from it
    aedit,                      \* the edit each job applies
    manifest,                   \* the edits appended to the manifest log
    readerView,                 \* the version a reader loaded last
    nedits,                     \* edits built so far
    \* the keys of a DB read through snapshots
    snapshots,                  \* d.mu.snapshots: the sequence numbers listed
    dbMem,                      \* the keys of the memtable
    dbFiles,                    \* the keys of the sstables
    taken,                      \* what each listed snapshot read when it was taken
    got                         \* what the last get command read

cvars == <<tw, lastKey, ret, meta, ops>>

wvars == <<minimumSize, requiredInPlaceValueBound, shortAttrExtractor, writer,
           objMeta, blobFiles, cfgBound, newBlobCalls, newBlobCreated,
           sepValues, sepBytes>>

pvars == <<inputBlobMetadatas, outputBlobReferenceDepth, currReferences,
           totalValueSize, written, added>>

fvars == <<file, foot, footDone, encFooter>>

ivars == <<block, cursor, iterValidityState, rangeKey, rangeKeyChanged,
           prefixMode, cmd, out, merged, iterOpts, optViews, step>>

dvars == <<logSeqNum, visibleSeqNum, currentVersion, level, mem, boundStart,
           boundEnd, veNewFiles, largestSeqNum, flushes, flushFailed, nlines, dpc, derr>>

vvars == <<logLockHolder, apc, abase, anew, aedit, manifest, readerView, nedits>>

svars == <<snapshots, dbMem, dbFiles, taken, got>>

vars == <<cvars, wvars, pvars, fvars, ivars, dvars, vvars, svars>>

\* ----------------------------------------------------------------- helpers
Min(a, b) == IF a <= b THEN a ELSE b

\* base.InternalKeyKindSet / base.InternalKeyKindMerge
InternalKeyKindSet == "SET"
InternalKeyKindMerge == "MERGE"
Kinds == {InternalKeyKindSet, InternalKeyKindMerge}

\* The zero-length key (the bounds of UserKeyPrefixBound{}).
EmptyPrefix == 0
\* vs.writer == nil
NilWriter == 0

\* A user key is a prefix and a suffix (a version); the suffix tells a key
\* from its prefix, which is what the bounds are compared with.
Suffixes == {1}
UserKeys == [prefix : 1..MaxPrefix, suffix : Suffixes]
NoKey == [prefix |-> EmptyPrefix, suffix |-> 0]
\* The argument of a call that has no key-value pair.
NoKV == [key |-> NoKey]

\* comparer.Split.Prefix: the prefix is the key without its suffix.
Prefix(k) == k.prefix

\* comparer.Compare on key prefixes.
Compare(a, b) == IF a < b THEN -1 ELSE IF a > b THEN 1 ELSE 0

\* The compaction iterator hands keys to Add in comparer order (several
\* versions of one user key may follow each other).
KeyLE(a, b) ==
    \/ a.prefix < b.prefix
    \/ a.prefix = b.prefix /\ a.suffix <= b.suffix

\* UserKeyPrefixBound{} and UserKeyPrefixBound.IsEmpty
EmptyBound == [Lower |-> EmptyPrefix, Upper |-> EmptyPrefix]
IsEmpty(b) == b.Lower = EmptyPrefix /\ b.Upper = EmptyPrefix

\* The prefix lies inside [Lower, Upper).
InBound(b, p) == b.Lower <= p /\ p < b.Upper

\* ------------------------------------------------- writeNewBlobFiles: model
\* A blob object made by newBlobObject and the blob.FileWriter opened on it:
\* the number and total length of the values appended, how often Close was
\* called on the writer, and how many values were appended after a Close.
NewBlobFile(fn) ==
    [FileNum |-> fn, values |-> 0, bytes |-> 0, closes |-> 0, lateAdds |-> 0]

\* newBlobObject hands out a fresh disk file number for every object.
NextFileNum(files) == 10 + Len(files)

\* blob.FileWriter.AddValue: the value goes to the end of the file and the
\* handle says where it is.
AddValueHandle(f, v) ==
    [FileNum |-> f.FileNum, ValueLen |-> v, BlockNum |-> f.values,
     OffsetInBlock |-> f.bytes]
AddValueFile(f, v) ==
    [f EXCEPT !.values = @ + 1, !.bytes = @ + v,
              !.lateAdds = IF f.closes > 0 THEN @ + 1 ELSE @]

\* blob.FileWriterStats.UncompressedValueBytes of a writer.
UncompressedValueBytes(f) == f.bytes

NoHandle == [ReferenceIndex |-> -1, ValueLen |-> -1, BlockNum |-> -1,
             OffsetInBlock |-> -1]

\* One call on the sstable writer: tw.Add(key, value) or
\* tw.AddWithBlobHandle(key, handle, attr); ok says whether it returned nil.
TwAdd(kv, ok) ==
    [method |-> "Add", key |-> kv.key, kind |-> kv.kind, value |-> kv.len,
     handle |-> NoHandle, attr |-> 0, ok |-> ok]
TwAddWithBlobHandle(kv, h, attr, ok) ==
    [method |-> "AddWithBlobHandle", key |-> kv.key, kind |-> kv.kind,
     value |-> -1, handle |-> h, attr |-> attr, ok |-> ok]
\* Nothing was handed to the output's writer yet.
TwNone ==
    [method |-> "", key |-> NoKey, kind |-> "", value |-> -1,
     handle |-> NoHandle, attr |-> 0, ok |-> TRUE]

\* The short attribute extractor configured for the store (a user function
\* of the value; base.ShortAttribute has three bits).
ShortAttrOf(v) == v % 8

\* (mutant) the size test off by one: a value one byte short is separated.
TooSmallOffByOne(v, minSize) == v + 1 < minSize

\* Add, line 86: values that are too small are never separated.
TooSmall(v, minSize) == v < minSize

\* Add, line 90: merge keys are never separated.
IsMerge(kind) == kind = InternalKeyKindMerge

\* Add, lines 95-100: the bound is cleared once a key prefix is at or past
\* its upper end.
BoundAfter(b, kPrefix) ==
    IF ~IsEmpty(b) /\ Compare(b.Upper, kPrefix) <= 0 THEN EmptyBound ELSE b

\* (mutant) the lower end of the bound taken as exclusive.
StaysInPlaceAboveLower(b, kPrefix) ==
    /\ ~IsEmpty(b)
    /\ ~(Compare(b.Upper, kPrefix) <= 0)
    /\ Compare(kPrefix, b.Lower) > 0

\* Add, lines 95-104: the key is inside the bound, its value stays in place.
StaysInPlace(b, kPrefix) ==
    /\ ~IsEmpty(b)
    /\ ~(Compare(b.Upper, kPrefix) <= 0)
    /\ Compare(kPrefix, b.Lower) >= 0

\* (mutant) the nil test on the writer left out: a blob object per value.
NeedsNewBlobObjectAlways(w) == TRUE

\* Add, line 125: a blob object is made only when no writer is open.
NeedsNewBlobObject(w) == w = NilWriter

\* Add, lines 140-153: the handle written to the sstable.
InlineHandle(h) ==
    [ReferenceIndex |-> 0, ValueLen |-> h.ValueLen, BlockNum |-> h.BlockNum,
     OffsetInBlock |-> h.OffsetInBlock]

\* compact.ValueSeparationMetadata{} and the metadata of lines 168-183.
EmptyMeta(err) ==
    [BlobReferences |-> <<>>, BlobReferenceSize |-> 0, BlobReferenceDepth |-> 0,
     err |-> err]
BlobFileMeta(fn, bytes) ==
    [BlobReferences |-> <<[FileNum |-> fn, ValueSize |-> bytes]>>,
     BlobReferenceSize |-> bytes, BlobReferenceDepth |-> 1, err |-> FALSE]

\* (mutant) the nil test on the writer left out: the size of the blob file
\* made last, open or not.
WEstimatedFileSizeLastFile ==
    IF blobFiles = <<>> THEN 0
    ELSE UncompressedValueBytes(blobFiles[Len(blobFiles)])

\* writeNewBlobFiles.EstimatedFileSize, with FileWriter.EstimatedSize taken as
\* the bytes appended so far.
WEstimatedFileSize ==
    IF writer = NilWriter THEN 0 ELSE UncompressedValueBytes(blobFiles[writer])

\* The collaborator call that fails during one Add: kv.Value, the extractor,
\* newBlobObject, the sstable writer, or none.
Failures == {"none", "fetch", "extract", "newBlob", "tw"}

\* How far an Add call gets, in the order of the code: the value fetch, the
\* three in-place criteria, the extractor, the blob object.
AddPath(kv, fail) ==
    IF fail = "fetch" THEN "fetchErr"
    ELSE IF TooSmall(kv.len, minimumSize) THEN "small"
    ELSE IF IsMerge(kv.kind) THEN "merge"
    ELSE IF StaysInPlace(requiredInPlaceValueBound, Prefix(kv.key)) THEN "inPlace"
    ELSE IF shortAttrExtractor /\ fail = "extract" THEN "extractErr"
    ELSE IF NeedsNewBlobObject(writer) /\ fail = "newBlob" THEN "newBlobErr"
    ELSE "separated"

WKVs == [key : UserKeys, kind : Kinds, len : 0..MaxLen]

\* The compaction before its first call on the policy.
CInit ==
    /\ tw = TwNone
    /\ lastKey = NoKey
    /\ ret = [op |-> "New", kv |-> NoKV, err |-> FALSE, fetched |-> FALSE]
    /\ meta = EmptyMeta(FALSE)
    /\ ops = 0

\* A writeNewBlobFiles as the compaction constructs it.
WInit ==
    /\ minimumSize \in 1..MaxLen
    /\ cfgBound \in {b \in [Lower : 0..MaxPrefix, Upper : 0..(MaxPrefix + 1)] :
                        IsEmpty(b) \/ (1 <= b.Lower /\ b.Lower < b.Upper)}
    /\ requiredInPlaceValueBound = cfgBound
    /\ shortAttrExtractor \in BOOLEAN
    /\ writer = NilWriter
    /\ objMeta = 0
    /\ blobFiles = <<>>
    /\ newBlobCalls = 0
    /\ newBlobCreated = 0
    /\ sepValues = 0
    /\ sepBytes = 0

\* The compaction uses the other policy: no writeNewBlobFiles is in use.
WUnused ==
    /\ minimumSize = 0
    /\ cfgBound = EmptyBound
    /\ requiredInPlaceValueBound = EmptyBound
    /\ shortAttrExtractor = FALSE
    /\ writer = NilWriter
    /\ objMeta = 0
    /\ blobFiles = <<>>
    /\ newBlobCalls = 0
    /\ newBlobCreated = 0
    /\ sepValues = 0
    /\ sepBytes = 0

\* writeNewBlobFiles.Add, lines 71-155, for one key-value pair and one
\* outcome of the collaborators.
WAddCall(kv, fail) ==
    LET path == AddPath(kv, fail)
        pastSizeAndKind == path \notin {"fetchErr", "small", "merge"}
        inline == path \in {"small", "merge", "inPlace"}
        opens == path \in {"newBlobErr", "separated"} /\ NeedsNewBlobObject(writer)
        created == opens /\ path = "separated"
        files1 == IF created
                  THEN Append(blobFiles, NewBlobFile(NextFileNum(blobFiles)))
                  ELSE blobFiles
        w1 == IF created THEN Len(files1) ELSE writer
        attr == IF shortAttrExtractor THEN ShortAttrOf(kv.len) ELSE 0
    IN
    /\ ops < MaxOps
    /\ KeyLE(lastKey, kv.key)
    /\ ops' = ops + 1
    /\ lastKey' = kv.key
    /\ requiredInPlaceValueBound' =
          IF pastSizeAndKind
          THEN BoundAfter(requiredInPlaceValueBound, Prefix(kv.key))
          ELSE requiredInPlaceValueBound
    /\ newBlobCalls' = IF opens THEN newBlobCalls + 1 ELSE newBlobCalls
    /\ newBlobCreated' = IF created THEN newBlobCreated + 1 ELSE newBlobCreated
    /\ writer' = w1
    /\ objMeta' = IF created THEN files1[w1].FileNum ELSE objMeta
    /\ blobFiles' = IF path = "separated"
                    THEN [files1 EXCEPT ![w1] = AddValueFile(@, kv.len)]
                    ELSE blobFiles
    /\ sepValues' = IF path = "separated" THEN sepValues + 1 ELSE sepValues
    /\ sepBytes' = IF path = "separated" THEN sepBytes + kv.len ELSE sepBytes
    /\ tw' = IF inline THEN TwAdd(kv, fail # "tw")
             ELSE IF path = "separated"
             THEN TwAddWithBlobHandle(kv,
                      InlineHandle(AddValueHandle(files1[w1], kv.len)), attr,
                      fail # "tw")
             ELSE tw
    /\ ret' = [op |-> "Add", kv |-> kv,
                err |-> IF inline \/ path = "separated" THEN fail = "tw" ELSE TRUE,
                fetched |-> TRUE]
    /\ UNCHANGED <<minimumSize, shortAttrExtractor, cfgBound, meta>>
    /\ UNCHANGED pvars
    /\ UNCHANGED fvars
    /\ UNCHANGED ivars
    /\ UNCHANGED dvars
    /\ UNCHANGED <<vvars, svars>>

\* The failures that one Add call can meet: those of the calls it makes.
WFailuresOf(kv) ==
    LET path == AddPath(kv, "none") IN
    {"none", "fetch", "tw"}
        \cup (IF path = "separated" /\ shortAttrExtractor THEN {"extract"} ELSE {})
        \cup (IF path = "separated" /\ NeedsNewBlobObject(writer)
              THEN {"newBlob"} ELSE {})

WAdd == \E kv \in WKVs : \E fail \in WFailuresOf(kv) : WAddCall(kv, fail)

\* writeNewBlobFiles.FinishOutput, lines 159-184.  The compaction then starts
\* the next output with a new sstable writer.
WFinishOutputCall(closeOK) ==
    /\ ops < MaxOps
    /\ ops' = ops + 1
    /\ IF writer = NilWriter
       THEN /\ meta' = EmptyMeta(FALSE)
            /\ UNCHANGED <<writer, blobFiles>>
       ELSE /\ blobFiles' = [blobFiles EXCEPT ![writer].closes = @ + 1]
            /\ IF closeOK
               THEN /\ writer' = NilWriter
                    /\ meta' = BlobFileMeta(objMeta,
                                    UncompressedValueBytes(blobFiles[writer]))
               ELSE /\ writer' = writer
                    /\ meta' = EmptyMeta(TRUE)
    /\ ret' = [op |-> "FinishOutput", kv |-> NoKV, err |-> meta'.err, fetched |-> FALSE]
    /\ tw' = TwNone
    /\ newBlobCalls' = 0
    /\ newBlobCreated' = 0
    /\ sepValues' = 0
    /\ sepBytes' = 0
    /\ UNCHANGED <<minimumSize, requiredInPlaceValueBound, shortAttrExtractor,
                   objMeta, cfgBound, lastKey>>
    /\ UNCHANGED pvars
    /\ UNCHANGED fvars
    /\ UNCHANGED ivars
    /\ UNCHANGED dvars
    /\ UNCHANGED <<vvars, svars>>

WFinishOutput == \E closeOK \in BOOLEAN : WFinishOutputCall(closeOK)


\* ------------------------------------------- writeNewBlobFiles: properties
\* The Add calls whose value was fetched: the value is known.
WFetched(kv) == WFailuresOf(kv) \ {"fetch"}

\* The key-value pair the Add call of this step was made with.
WStepKVs == {ret'.kv}

\* The call handed the value itself to tw.Add and left the blob state alone.
WrittenInline(kv, fail) ==
    /\ tw' = TwAdd(kv, fail # "tw")
    /\ blobFiles' = blobFiles
    /\ writer' = writer
    /\ objMeta' = objMeta
    /\ newBlobCalls' = newBlobCalls
    /\ sepValues' = sepValues

\* C1: an Add whose value is shorter than minimumSize, or whose key is a merge
\* key, hands the value to tw.Add; it makes no blob object, appends nothing to
\* a blob file and leaves the required-in-place bound as it was.
C1_SmallOrMergeInline ==
    [][ret'.op = "Add" =>
         \A kv \in WStepKVs :
            (kv.len < minimumSize \/ kv.kind = InternalKeyKindMerge) =>
               \A fail \in WFetched(kv) :
                  WAddCall(kv, fail) =>
                     /\ WrittenInline(kv, fail)
                     /\ requiredInPlaceValueBound' = requiredInPlaceValueBound]_vars

\* A merge key whose value is not below minimumSize, written inline while a
\* blob writer is open and no bound is configured.
C1_Witness ==
    /\ ret.op = "Add"
    /\ ret.kv.kind = InternalKeyKindMerge
    /\ ret.kv.len >= minimumSize
    /\ tw = TwAdd(ret.kv, TRUE)
    /\ writer # NilWriter
    /\ IsEmpty(cfgBound)

\* C2: every key whose prefix lies inside the configured bound [Lower, Upper)
\* is written inline with tw.Add and nothing is appended to a blob file,
\* wherever the call comes in the sequence of Add calls.
C2_InBoundInline ==
    [][(ret'.op = "Add" /\ InBound(cfgBound, Prefix(lastKey'))) =>
         \A kv \in WStepKVs : \A fail \in WFetched(kv) :
            WAddCall(kv, fail) => WrittenInline(kv, fail)]_vars

\* A large non-merge value whose key is inside the bound, written inline after
\* an earlier key below the bound had its value separated.
C2_Witness ==
    /\ ret.op = "Add"
    /\ ret.kv.kind = InternalKeyKindSet
    /\ ret.kv.len >= minimumSize
    /\ InBound(cfgBound, Prefix(ret.kv.key))
    /\ tw = TwAdd(ret.kv, TRUE)
    /\ writer # NilWriter

\* C3 as stated: between two FinishOutput calls newBlobObject is called at
\* most once, and not at all when no value is separated; every blob handle
\* written has ReferenceIndex 0.
C3_AtMostOneCall ==
    /\ newBlobCalls <= 1
    /\ (sepValues = 0 => newBlobCalls = 0)
    /\ (tw.method = "AddWithBlobHandle" => tw.handle.ReferenceIndex = 0)

\* C3, amended: between two FinishOutput calls at most one newBlobObject call
\* succeeds.  Every call is made by an Add whose value met all the criteria
\* for separation while no writer was open; a call that succeeds is made by
\* the first Add of the output that separates its value.  An output
\* references at most one blob file and every blob handle written has
\* ReferenceIndex 0.
C3_AtMostOneCreated ==
    [][/\ newBlobCreated' <= 1
       /\ Len(meta'.BlobReferences) <= 1
       /\ (tw'.method = "AddWithBlobHandle" => tw'.handle.ReferenceIndex = 0)
       /\ (newBlobCalls' # newBlobCalls /\ ret'.op = "Add") =>
             /\ newBlobCalls' = newBlobCalls + 1
             /\ writer = NilWriter
             /\ \E kv \in WStepKVs : \E fail \in WFetched(kv) :
                   /\ kv.len >= minimumSize
                   /\ kv.kind # InternalKeyKindMerge
                   /\ ~InBound(cfgBound, Prefix(kv.key))
                   /\ WAddCall(kv, fail)
       /\ (newBlobCreated' # newBlobCreated /\ ret'.op = "Add") =>
             /\ newBlobCalls' = newBlobCalls + 1
             /\ sepValues = 0
             /\ sepValues' = 1
             /\ Len(blobFiles') = Len(blobFiles) + 1
             /\ tw'.method = "AddWithBlobHandle"]_vars

\* A second value separated into the blob file the output already has, after
\* a newBlobObject call that failed.
C3_Witness ==
    /\ newBlobCalls = 2
    /\ newBlobCreated = 1
    /\ sepValues = 1
    /\ tw.method = "AddWithBlobHandle"

\* C4: Close is called at most once on a blob file writer, and no value is
\* appended to a writer that Close was called on.
C4_ClosedOnce ==
    \A i \in DOMAIN blobFiles :
        blobFiles[i].closes <= 1 /\ blobFiles[i].lateAdds = 0

\* C10: a FinishOutput that returns no error returns, when a value was
\* separated since the previous FinishOutput, one reference to the blob object
\* made for this output with ValueSize and BlobReferenceSize the total length
\* of the values separated into this output and depth 1; and when none was
\* separated, empty metadata.
C10_FinishOutputMetadata ==
    [][\A closeOK \in BOOLEAN :
          (WFinishOutputCall(closeOK) /\ ~meta'.err) =>
             IF sepValues > 0
             THEN /\ newBlobCreated = 1
                  /\ meta' = BlobFileMeta(blobFiles[Len(blobFiles)].FileNum,
                                           sepBytes)
             ELSE meta' = EmptyMeta(FALSE)]_vars

\* The Add call of this step returned the error of kv.Value, of the
\* short-attribute extractor or of newBlobObject.
FailedBeforeWrite(path) == path \in {"fetchErr", "extractErr", "newBlobErr"}

\* C32: an Add that returns an error from fetching the value, from the
\* short-attribute extractor or from newBlobObject has written nothing to the
\* sstable and appended nothing to a blob file; an extractor failure on the
\* first separable value makes no blob object; a newBlobObject failure leaves
\* the writer nil, so that EstimatedFileSize stays 0 and a FinishOutput that
\* finds no blob object made for the output returns empty metadata.
C32_FailedAddWritesNothing ==
    [][/\ (ret'.op = "Add" /\ ret'.err) =>
            \A kv \in WStepKVs : \A fail \in WFailuresOf(kv) \ {"none", "tw"} :
               (FailedBeforeWrite(AddPath(kv, fail)) /\ WAddCall(kv, fail)) =>
                  /\ ret'.err
                  /\ tw' = tw
                  /\ blobFiles' = blobFiles
                  /\ sepValues' = sepValues
                  /\ sepBytes' = sepBytes
                  /\ newBlobCreated' = newBlobCreated
                  /\ writer' = writer
                  /\ AddPath(kv, fail) = "extractErr" =>
                        newBlobCalls' = newBlobCalls
                  /\ AddPath(kv, fail) = "newBlobErr" =>
                        /\ writer' = NilWriter
                        /\ WEstimatedFileSize = 0
                        /\ WEstimatedFileSize' = 0
       /\ (ret'.op = "FinishOutput" /\ newBlobCalls > 0 /\ newBlobCreated = 0) =>
            /\ writer = NilWriter
            /\ meta' = EmptyMeta(FALSE)
            /\ blobFiles' = blobFiles]_vars

\* newBlobObject failed for the first separable value of the second output:
\* nothing was handed to the output's sstable writer, the writer is nil and
\* the blob file of the first output is as it was closed.
C32_Witness ==
    /\ ret.op = "Add"
    /\ ret.err
    /\ newBlobCalls = 1
    /\ newBlobCreated = 0
    /\ writer = NilWriter
    /\ tw = TwNone
    /\ Len(blobFiles) = 1
    /\ blobFiles[1].bytes > 0
    /\ blobFiles[1].closes = 1

\* --------------------------------------------- preserveBlobReferences: model
\* manifest.BlobFileMetadata of an input blob file.
BlobFileMetadata(fn) == [FileNum |-> fn]

RECURSIVE SortedSeq(_)
SortedSeq(S) ==
    IF S = {} THEN <<>>
    ELSE LET m == CHOOSE x \in S : \A y \in S : x <= y
         IN <<m>> \o SortedSeq(S \ {m})

\* The encoded handle suffix an input blob handle carries in ValueOrHandle
\* (block number, offset in block), and blob.DecodeHandleSuffix.
HandleSuffixes == {<<0, 0>>, <<1, 2>>}
DecodeHandleSuffix(enc) == [BlockNum |-> enc[1], OffsetInBlock |-> enc[2]]

\* preserveBlobReferences.Add hands kv.K to the sstable writer and never
\* reads it: the compaction of this policy writes the versions of one user key.
PKeys == {k \in UserKeys : Prefix(k) = 1}

\* The key-value pairs handed to preserveBlobReferences.Add: the value is in
\* the input sstable (handle FALSE) or is a handle into blob file fn.
PKVs ==
    [key : PKeys, kind : {InternalKeyKindSet}, handle : {FALSE},
     len : 0..MaxLen, fn : {0}, enc : {<<>>}, attr : {0}]
    \cup
    [key : PKeys, kind : {InternalKeyKindSet}, handle : {TRUE},
     len : 1..MaxLen, fn : 1..MaxFile, enc : HandleSuffixes, attr : {1}]

\* (mutant) the test of line 233 inverted.
IsBlobValueHandleInverted(kv) == ~kv.handle

\* Add, line 233: kv.V.IsBlobValueHandle().
IsBlobValueHandle(kv) == kv.handle

\* (mutant) the scan of currReferences misses the last reference.
FindReferenceButLast(refs, fn, i) ==
    IF i + 1 >= Len(refs) THEN [found |-> FALSE, refIdx |-> 0]
    ELSE IF refs[i + 1].FileNum = fn THEN [found |-> TRUE, refIdx |-> i]
    ELSE [found |-> FALSE, refIdx |-> 0]

\* Add, lines 253-262: the scan of currReferences for the blob file, from
\* index i on.
RECURSIVE FindReference(_, _, _)
FindReference(refs, fn, i) ==
    IF i >= Len(refs) THEN [found |-> FALSE, refIdx |-> IF i = 0 THEN 0 ELSE i - 1]
    ELSE IF refs[i + 1].FileNum = fn THEN [found |-> TRUE, refIdx |-> i]
    ELSE FindReference(refs, fn, i + 1)

\* slices.BinarySearchFunc over metas[i..j), with cmp.Compare on FileNum.
RECURSIVE BinarySearchFunc(_, _, _, _)
BinarySearchFunc(metas, fn, i, j) ==
    IF i < j
    THEN LET h == (i + j) \div 2 IN
         IF Compare(metas[h + 1].FileNum, fn) < 0
         THEN BinarySearchFunc(metas, fn, h + 1, j)
         ELSE BinarySearchFunc(metas, fn, i, h)
    ELSE [idx |-> i,
          found |-> i < Len(metas) /\ Compare(metas[i + 1].FileNum, fn) = 0]

\* findInputBlobMetadata, lines 301-306.
findInputBlobMetadata(metas, fn) == BinarySearchFunc(metas, fn, 0, Len(metas))

\* (mutant) the new reference takes the index of the last reference.
NewReferenceIndexLast(refs) == IF refs = <<>> THEN 0 ELSE Len(refs) - 1

\* Add, line 270: a blob file seen for the first time in this output gets the
\* next index.
NewReferenceIndex(refs) == Len(refs)

\* Add, lines 271-274: the reference appended for a blob file.
NewReference(fn, metas, idx) ==
    [FileNum |-> fn, Metadata |-> metas[idx + 1], ValueSize |-> 0]

\* Add, lines 282-288: the handle written to the output sstable.  The index
\* is below len(currReferences) + 1, so uint32(refIdx) keeps its value.
PreservedHandle(refIdx, kv) ==
    [ReferenceIndex |-> refIdx, ValueLen |-> kv.len,
     BlockNum |-> DecodeHandleSuffix(kv.enc).BlockNum,
     OffsetInBlock |-> DecodeHandleSuffix(kv.enc).OffsetInBlock]

\* (mutant) the depth raised to the number of references.
ReferenceDepthMax(depth, refs) == IF depth >= Len(refs) THEN depth ELSE Len(refs)

\* FinishOutput, line 324.
ReferenceDepth(depth, refs) == Min(depth, Len(refs))

\* FinishOutput, lines 313-316.
RECURSIVE ReferenceSize(_)
ReferenceSize(refs) ==
    IF refs = <<>> THEN 0 ELSE Head(refs).ValueSize + ReferenceSize(Tail(refs))

\* preserveBlobReferences.EstimatedFileSize, lines 211-213.
PEstimatedFileSize == 0

\* preserveBlobReferences.EstimatedReferenceSize, lines 217-226.
PEstimatedReferenceSize == totalValueSize

\* What the references are once Add has looked the blob file up (lines
\* 253-275): which index the handle gets, and whether the lookup failed.
Lookup(refs, metas, fn) ==
    LET cur == FindReference(refs, fn, 0)
        inp == findInputBlobMetadata(metas, fn)
    IN IF cur.found THEN [ok |-> TRUE, refIdx |-> cur.refIdx, refs |-> refs]
       ELSE IF ~inp.found THEN [ok |-> FALSE, refIdx |-> cur.refIdx, refs |-> refs]
       ELSE [ok |-> TRUE, refIdx |-> NewReferenceIndex(refs),
             refs |-> Append(refs, NewReference(fn, metas, inp.idx))]

\* Add, line 277: the check made in builds with invariants enabled.
WrongReferenceIndex(refs, refIdx, fn) == refs[refIdx + 1].Metadata.FileNum # fn

\* The failures one Add call can meet: kv.Value for a value that is no
\* handle, the sstable writer, and in a build with invariants enabled the
\* panic of line 278.
PFailuresOf(kv) ==
    IF ~IsBlobValueHandle(kv) THEN {"none", "fetch", "tw"}
    ELSE LET l == Lookup(currReferences, inputBlobMetadatas, kv.fn) IN
         {"none", "tw"}
            \cup (IF l.ok /\ WrongReferenceIndex(l.refs, l.refIdx, kv.fn)
                  THEN {"invariants"} ELSE {})

\* No handle was added to the output yet.
NoneAdded == [fn \in 1..MaxFile |-> 0]

\* A preserveBlobReferences as the compaction constructs it.
PInit ==
    /\ inputBlobMetadatas \in
          {[i \in DOMAIN SortedSeq(S) |-> BlobFileMetadata(SortedSeq(S)[i])] :
              S \in SUBSET (1..MaxFile)}
    /\ outputBlobReferenceDepth \in 0..MaxFile
    /\ currReferences = <<>>
    /\ totalValueSize = 0
    /\ written = {}
    /\ added = NoneAdded

\* The compaction uses the other policy: no preserveBlobReferences is in use.
PUnused ==
    /\ inputBlobMetadatas = <<>>
    /\ outputBlobReferenceDepth = 0
    /\ currReferences = <<>>
    /\ totalValueSize = 0
    /\ written = {}
    /\ added = NoneAdded

\* preserveBlobReferences.Add, lines 230-296, for one key-value pair and one
\* outcome of the collaborators.
PAddCall(kv, fail) ==
    /\ ops < MaxOps
    /\ KeyLE(lastKey, kv.key)
    /\ ops' = ops + 1
    /\ lastKey' = kv.key
    /\ IF ~IsBlobValueHandle(kv)
       THEN \* lines 233-247
            /\ IF fail = "fetch"
               THEN /\ tw' = tw
                    /\ ret' = [op |-> "Add", kv |-> kv, err |-> TRUE, fetched |-> TRUE]
               ELSE /\ tw' = TwAdd(kv, fail # "tw")
                    /\ ret' = [op |-> "Add", kv |-> kv, err |-> fail = "tw", fetched |-> TRUE]
            /\ UNCHANGED <<currReferences, totalValueSize, written, added>>
       ELSE \* lines 251-295
            LET l == Lookup(currReferences, inputBlobMetadatas, kv.fn)
                h == PreservedHandle(l.refIdx, kv)
            IN
            IF ~l.ok \/ (fail = "invariants"
                           /\ WrongReferenceIndex(l.refs, l.refIdx, kv.fn))
            THEN /\ currReferences' = l.refs
                 /\ ret' = [op |-> "Add", kv |-> kv, err |-> TRUE, fetched |-> FALSE]
                 /\ UNCHANGED <<tw, totalValueSize, written, added>>
            ELSE /\ tw' = TwAddWithBlobHandle(kv, h, kv.attr, fail # "tw")
                 /\ written' = written \cup
                       {[ReferenceIndex |-> h.ReferenceIndex, FileNum |-> kv.fn]}
                 /\ ret' = [op |-> "Add", kv |-> kv, err |-> fail = "tw", fetched |-> FALSE]
                 /\ IF fail = "tw"
                    THEN /\ currReferences' = l.refs
                         /\ totalValueSize' = totalValueSize
                         /\ added' = added
                    ELSE /\ currReferences' =
                               [l.refs EXCEPT ![l.refIdx + 1].ValueSize = @ + kv.len]
                         /\ totalValueSize' = totalValueSize + kv.len
                         /\ added' = [added EXCEPT ![kv.fn] = @ + kv.len]
    /\ UNCHANGED <<meta, inputBlobMetadatas, outputBlobReferenceDepth>>
    /\ UNCHANGED wvars
    /\ UNCHANGED fvars
    /\ UNCHANGED ivars
    /\ UNCHANGED dvars
    /\ UNCHANGED <<vvars, svars>>

PAdd == \E kv \in PKVs : \E fail \in PFailuresOf(kv) : PAddCall(kv, fail)

\* preserveBlobReferences.FinishOutput, lines 309-326.  The compaction then
\* starts the next output with a new sstable writer.
PFinishOutput ==
    /\ ops < MaxOps
    /\ ops' = ops + 1
    /\ meta' = [BlobReferences |-> currReferences,
                BlobReferenceSize |-> ReferenceSize(currReferences),
                BlobReferenceDepth |->
                    ReferenceDepth(outputBlobReferenceDepth, currReferences),
                err |-> FALSE]
    /\ currReferences' = <<>>
    /\ ret' = [op |-> "FinishOutput", kv |-> NoKV, err |-> FALSE, fetched |-> FALSE]
    /\ tw' = TwNone
    /\ written' = {}
    /\ added' = NoneAdded
    /\ UNCHANGED <<lastKey, totalValueSize, inputBlobMetadatas,
                   outputBlobReferenceDepth>>
    /\ UNCHANGED wvars
    /\ UNCHANGED fvars
    /\ UNCHANGED ivars
    /\ UNCHANGED dvars
    /\ UNCHANGED <<vvars, svars>>

\* ---------------------------------------- preserveBlobReferences: properties
\* The key-value pair the Add call of this step was made with.
PStepKVs == {ret'.kv}

\* The file numbers of the input blob files.
InputFileNums == {inputBlobMetadatas[i].FileNum : i \in DOMAIN inputBlobMetadatas}

\* The blob files that the handles handed to the output's writer point into.
WrittenFileNums == {h.FileNum : h \in written}

\* C5: within an output the reference indices put into blob handles are dense
\* and start at 0: a handle into a blob file the output already references
\* gets that file's index, a handle into the k-th distinct blob file gets
\* k - 1; the indices used are exactly 0..n-1 for the n references
\* FinishOutput returns, and the numbering starts again after FinishOutput.
C5_DenseIndices ==
    [][/\ ret'.op = "Add" =>
            \A kv \in PStepKVs :
               (kv.handle /\ kv.fn \in InputFileNums) =>
                  \A fail \in PFailuresOf(kv) :
                     PAddCall(kv, fail) =>
                        /\ tw'.method = "AddWithBlobHandle"
                        /\ IF kv.fn \in WrittenFileNums
                           THEN \A h \in written :
                                   h.FileNum = kv.fn =>
                                      h.ReferenceIndex = tw'.handle.ReferenceIndex
                           ELSE tw'.handle.ReferenceIndex =
                                   Cardinality(WrittenFileNums)
       /\ ret'.op = "FinishOutput" =>
            /\ {h.ReferenceIndex : h \in written} =
                  0..(Len(meta'.BlobReferences) - 1)
            /\ written' = {}]_vars

\* The second distinct blob file of an output got index 1 although its file
\* number is the smaller one.
C5_Witness ==
    /\ ret.op = "Add"
    /\ ret.kv.handle
    /\ tw.method = "AddWithBlobHandle"
    /\ tw.handle.ReferenceIndex = 1
    /\ \E g \in written : g.ReferenceIndex = 0 /\ ret.kv.fn < g.FileNum

\* C6: a handle handed to the output's writer keeps the value length, block
\* number and offset of the input handle, and its ReferenceIndex leads, in
\* the references of the output and in the list FinishOutput returns, to the
\* blob file the input handle points into; no file number is twice in the
\* list.
C6_HandlesResolve ==
    [][/\ ret'.op = "Add" =>
            /\ \A kv \in PStepKVs :
                  (kv.handle /\ kv.fn \in InputFileNums) =>
                     \A fail \in PFailuresOf(kv) :
                        PAddCall(kv, fail) =>
                           /\ tw'.method = "AddWithBlobHandle"
                           /\ tw'.handle.ValueLen = kv.len
                           /\ tw'.handle.BlockNum = kv.enc[1]
                           /\ tw'.handle.OffsetInBlock = kv.enc[2]
                           /\ tw'.handle.ReferenceIndex + 1 \in DOMAIN currReferences'
                           /\ currReferences'[tw'.handle.ReferenceIndex + 1].FileNum
                                 = kv.fn
            /\ \A h \in written' :
                  /\ h.ReferenceIndex + 1 \in DOMAIN currReferences'
                  /\ currReferences'[h.ReferenceIndex + 1].FileNum = h.FileNum
       /\ ret'.op = "FinishOutput" =>
            LET refs == meta'.BlobReferences IN
            /\ \A h \in written :
                  /\ h.ReferenceIndex + 1 \in DOMAIN refs
                  /\ refs[h.ReferenceIndex + 1].FileNum = h.FileNum
                  /\ refs[h.ReferenceIndex + 1].Metadata = BlobFileMetadata(h.FileNum)
            /\ \A i, j \in DOMAIN refs :
                  i # j => refs[i].FileNum # refs[j].FileNum]_vars

\* FinishOutput returned two references, the first to the blob file with the
\* larger file number.
C6_Witness ==
    /\ ret.op = "FinishOutput"
    /\ Len(meta.BlobReferences) = 2
    /\ meta.BlobReferences[1].FileNum > meta.BlobReferences[2].FileNum

\* C7: the BlobReferenceDepth FinishOutput reports is the smaller of
\* outputBlobReferenceDepth and the number of distinct blob files the output
\* references (those of the list returned, which are those the handles handed
\* to the output's writer point into).
C7_ReferenceDepth ==
    [][ret'.op = "FinishOutput" =>
         LET refs == meta'.BlobReferences
             files == {refs[i].FileNum : i \in DOMAIN refs}
         IN /\ meta'.BlobReferenceDepth =
                  Min(outputBlobReferenceDepth, Cardinality(files))
            /\ files = WrittenFileNums
            /\ meta'.BlobReferenceDepth <= outputBlobReferenceDepth]_vars

\* An output that references more blob files than the depth of the inputs.
C7_Witness ==
    /\ ret.op = "FinishOutput"
    /\ Len(meta.BlobReferences) = 2
    /\ outputBlobReferenceDepth = 1
    /\ meta.BlobReferenceDepth = 1

\* C8: preserveBlobReferences makes no blob file and does not fetch a value
\* that is a blob handle; a value that is no blob handle is fetched and handed
\* to tw.Add, and currReferences and totalValueSize stay as they are;
\* EstimatedFileSize is 0.
C8_NoBlobFileNoFetch ==
    [][/\ blobFiles' = <<>>
       /\ writer' = NilWriter
       /\ PEstimatedFileSize = 0
       /\ ret'.op = "Add" =>
            \A kv \in PStepKVs : \A fail \in PFailuresOf(kv) :
               PAddCall(kv, fail) =>
                  IF kv.handle
                  THEN ~ret'.fetched
                  ELSE /\ ret'.fetched
                       /\ fail # "fetch" => tw' = TwAdd(kv, fail # "tw")
                       /\ currReferences' = currReferences
                       /\ totalValueSize' = totalValueSize]_vars

\* A value that is no handle written with tw.Add while the output has a
\* reference.
C8_Witness ==
    /\ ret.op = "Add"
    /\ ~ret.kv.handle
    /\ ret.fetched
    /\ tw = TwAdd(ret.kv, TRUE)
    /\ currReferences # <<>>
    /\ totalValueSize > 0

\* C9: totalValueSize is the sum of the ValueSize of currReferences, so
\* EstimatedReferenceSize is that of the current output, and 0 right after
\* FinishOutput.
C9_TotalValueSize ==
    /\ totalValueSize = ReferenceSize(currReferences)
    /\ ret.op = "FinishOutput" => PEstimatedReferenceSize = 0

\* The blob files that the handles the output's writer took point into, and
\* the total ValueLen of those handles over the files of S.  (A blob handle
\* has a ValueLen of at least 1.)
AddedFileNums == {fn \in 1..MaxFile : added[fn] > 0}

RECURSIVE AddedBytes(_)
AddedBytes(S) ==
    IF S = {} THEN 0
    ELSE LET fn == CHOOSE x \in S : TRUE IN added[fn] + AddedBytes(S \ {fn})

\* What FinishOutput returns for the blob files of S: one reference per file,
\* with the file's input metadata and the total ValueLen of the handles the
\* writer took, and the sum of these as BlobReferenceSize.
ReferencesAre(m, S) ==
    LET refs == m.BlobReferences IN
    /\ {refs[i].FileNum : i \in DOMAIN refs} = S
    /\ Len(refs) = Cardinality(S)
    /\ \A i \in DOMAIN refs :
          /\ refs[i].Metadata.FileNum = refs[i].FileNum
          /\ \E j \in DOMAIN inputBlobMetadatas :
                inputBlobMetadatas[j] = refs[i].Metadata
          /\ refs[i].ValueSize = added[refs[i].FileNum]
    /\ m.BlobReferenceSize = AddedBytes(S)

\* C30: FinishOutput returns exactly one reference per distinct blob file
\* that the blob handles successfully added since the previous FinishOutput
\* point into, each with the Metadata of inputBlobMetadatas for that file
\* number and as ValueSize the sum of the ValueLen of those handles, and
\* BlobReferenceSize is the sum of all ValueSizes; a later Add does not alter
\* the list returned.
C30_FinishOutputReferences ==
    [][/\ ret'.op = "FinishOutput" => ReferencesAre(meta', AddedFileNums)
       /\ ret'.op = "Add" => meta' = meta]_vars

\* What holds of the list: it has one reference per blob file that a handle
\* handed to the output's writer points into, whether the writer took the
\* handle or rejected it.
C30_ReferencesOfHandlesHandedOver ==
    [][/\ ret'.op = "FinishOutput" => ReferencesAre(meta', WrittenFileNums)
       /\ ret'.op = "Add" => meta' = meta]_vars

\* C31: an Add that returns an error (the handle's blob file is not among
\* inputBlobMetadatas, or the sstable writer rejects the key) leaves
\* currReferences and totalValueSize as they were before the call, so that the
\* next FinishOutput reports no reference for a handle that was not written.
C31_FailedAddChangesNothing ==
    [][(ret'.op = "Add" /\ ret'.err) =>
          /\ currReferences' = currReferences
          /\ totalValueSize' = totalValueSize]_vars

\* What holds of a failed Add: totalValueSize and the ValueSize of every
\* reference are as before the call, and only a reference of ValueSize 0 for
\* the handle's blob file may have been appended, which happens when the
\* sstable writer rejects the first handle into that file; an Add that fails
\* before it reaches the writer changes nothing.
C31_FailedAddKeepsSizes ==
    [][(ret'.op = "Add" /\ ret'.err) =>
          /\ totalValueSize' = totalValueSize
          /\ added' = added
          /\ \/ currReferences' = currReferences
             \/ /\ tw'.method = "AddWithBlobHandle"
                /\ ~tw'.ok
                /\ currReferences' =
                      Append(currReferences,
                             [FileNum |-> ret'.kv.fn,
                              Metadata |-> BlobFileMetadata(ret'.kv.fn),
                              ValueSize |-> 0])]_vars

\* ------------------------------------------------------ sstable footer: model
\* A uint64 is four 16-bit limbs, most significant first, so that the sum of
\* line 352 wraps around at 2^64 as it does in the code.
LimbBase == 65536
U64(n) == <<0, 0, 0, n>>
MaxUint64 == <<LimbBase - 1, LimbBase - 1, LimbBase - 1, LimbBase - 1>>
HalfUint64 == <<LimbBase \div 2, 0, 0, 0>>

\* a + b over uint64: the wrapped sum, and the carry out of bit 63.
Add64(a, b) ==
    LET s0 == a[4] + b[4]
        s1 == a[3] + b[3] + (s0 \div LimbBase)
        s2 == a[2] + b[2] + (s1 \div LimbBase)
        s3 == a[1] + b[1] + (s2 \div LimbBase)
    IN [sum |-> <<s3 % LimbBase, s2 % LimbBase, s1 % LimbBase, s0 % LimbBase>>,
        carry |-> s3 \div LimbBase]

\* a > b over uint64.
Gt64(a, b) ==
    \E i \in 1..4 : a[i] > b[i] /\ \A j \in 1..(i - 1) : a[j] = b[j]

\* Lines 195-208.
levelDBFooterLen == 48
levelDBMagic == <<87, 251, 128, 139, 36, 117, 71, 219>>
rocksDBFooterLen == 1 + 2 * (10 + 10) + 4 + 8
rocksDBMagic == <<247, 207, 244, 133, 183, 65, 226, 136>>
pebbleDBMagic == <<240, 159, 170, 179, 240, 159, 170, 179>>
minFooterLen == levelDBFooterLen
maxFooterLen == rocksDBFooterLen
\* Line 211.
rocksDBFormatVersion2 == 2

\* An 8-byte trailer that is none of the three magics: the LevelDB magic with
\* its last byte changed, and eight zero bytes.
OtherMagics == {<<87, 251, 128, 139, 36, 117, 71, 218>>, <<0, 0, 0, 0, 0, 0, 0, 0>>}
Magics == {levelDBMagic, rocksDBMagic, pebbleDBMagic} \cup OtherMagics

\* The checksum type byte of the RocksDB layout: the two types parseFooter
\* accepts (lines 335-338) and one footer.encode writes but parseFooter refuses
\* (line 379).
ChecksumTypes == {"CRC32c", "XXHash64", "None"}

\* block.Handle and the zero footer.
Handle(off, len) == [Offset |-> off, Length |-> len]
ZeroHandle == Handle(U64(0), U64(0))
ZeroFooter ==
    [format |-> "Unspecified", checksum |-> "None", metaindexBH |-> ZeroHandle,
     indexBH |-> ZeroHandle, footerBH |-> ZeroHandle]

\* What block.DecodeHandle finds at the place of a handle: n bytes decoded
\* (0 when the varints are malformed) and the handle.
Decoded(n, off, len) == [n |-> n, h |-> Handle(off, len)]
DecodeSamples ==
    {Decoded(0, U64(0), U64(0)),
     Decoded(2, U64(0), U64(10)),
     Decoded(2, U64(40), U64(8)),
     Decoded(2, U64(60), U64(10)),
     Decoded(11, MaxUint64, U64(2)),
     Decoded(20, HalfUint64, HalfUint64)}

\* The files readFooter is given: the size, whether ReadAt succeeds, and what
\* the last bytes of the file hold at the places of the footer's fields.
FileSizes == {0, 47, 48, 52, 53, 64}
Versions == {0, 1, 2, 4, 5}
Files ==
    [size : FileSizes, readOK : BOOLEAN, magic : Magics, version : Versions,
     checksum : ChecksumTypes,
     metaindex : DecodeSamples, index : DecodeSamples]

\* ParseTableFormat (format.go): the table format of a magic and a version.
ParseTableFormat(magic, version) ==
    IF magic = levelDBMagic THEN [format |-> "LevelDB", err |-> ""]
    ELSE IF magic = rocksDBMagic
    THEN IF version = rocksDBFormatVersion2
         THEN [format |-> "RocksDBv2", err |-> ""]
         ELSE [format |-> "Unspecified", err |-> "unsupported rocksdb format version"]
    ELSE IF magic = pebbleDBMagic
    THEN IF version \in 1..4
         THEN [format |-> CASE version = 1 -> "Pebblev1"
                            [] version = 2 -> "Pebblev2"
                            [] version = 3 -> "Pebblev3"
                            [] OTHER -> "Pebblev4",
               err |-> ""]
         ELSE [format |-> "Unspecified", err |-> "unsupported pebble format version"]
    ELSE [format |-> "Unspecified", err |-> "bad magic number"]

\* (mutant) files of exactly minFooterLen - 1 bytes are let through.
TooSmallFileOffByOne(size) == size < minFooterLen - 1

\* readFooter, line 270.
TooSmallFile(size) == size < minFooterLen

\* readFooter, lines 274-279: the number of bytes read and where from.
BufLen(size) == IF size - maxFooterLen < 0 THEN size ELSE maxFooterLen
BufOff(size) == IF size - maxFooterLen < 0 THEN 0 ELSE size - maxFooterLen

\* (mutant) the Pebble magic taken for the legacy layout.
FooterLenLegacyPebble(magic) ==
    IF magic \in {levelDBMagic, pebbleDBMagic} THEN levelDBFooterLen
    ELSE IF magic = rocksDBMagic THEN rocksDBFooterLen
    ELSE 0

\* parseFooter, lines 306-346: the footer length the magic selects (0: none).
FooterLen(magic) ==
    IF magic = levelDBMagic THEN levelDBFooterLen
    ELSE IF magic \in {rocksDBMagic, pebbleDBMagic} THEN rocksDBFooterLen
    ELSE 0

\* (mutant) every checksum type byte is taken.
SupportedChecksumAny(c) == TRUE

\* parseFooter, lines 334-341: the checksum types of the RocksDB layout.
SupportedChecksum(c) == c \in {"CRC32c", "XXHash64"}

\* parseFooter, lines 352 and 358: the test made on a decoded handle.
BadHandle(d, end) == d.n = 0 \/ Gt64(Add64(d.h.Offset, d.h.Length).sum, end)

\* parseFooter, lines 304-364, on the bytes readFooter read.
parseFooter(f, buflen, off, size) ==
    LET flen == FooterLen(f.magic)
        bh == Handle(U64((off + buflen) - flen), U64(flen))
        end == U64(size)
    IN
    IF flen = 0
    THEN [footer |-> ZeroFooter, err |-> "bad magic number"]
    ELSE IF buflen < flen
    THEN [footer |-> ZeroFooter, err |-> "footer too short"]
    ELSE
      LET tf == ParseTableFormat(f.magic, f.version)
          legacy == f.magic = levelDBMagic
          f1 == [ZeroFooter EXCEPT !.footerBH = bh]
          f2 == [f1 EXCEPT !.format = tf.format,
                           !.checksum = IF legacy THEN "CRC32c" ELSE f.checksum]
          f3 == [f2 EXCEPT !.metaindexBH = f.metaindex.h]
          f4 == [f3 EXCEPT !.indexBH = f.index.h]
      IN
      IF ~legacy /\ tf.err # ""
      THEN [footer |-> f1, err |-> tf.err]
      ELSE IF ~legacy /\ ~SupportedChecksum(f.checksum)
      THEN [footer |-> [f1 EXCEPT !.format = tf.format],
            err |-> "unsupported checksum type"]
      ELSE IF BadHandle(f.metaindex, end)
      THEN [footer |-> f3, err |-> "bad metaindex block handle"]
      ELSE IF BadHandle(f.index, end)
      THEN [footer |-> f4, err |-> "bad index block handle"]
      ELSE [footer |-> f4, err |-> ""]

\* readFooter, lines 262-302: the footer and the error returned, whether the
\* file was read, and whether parseFooter was called.
readFooter(f) ==
    IF TooSmallFile(f.size)
    THEN [footer |-> ZeroFooter, err |-> "file size is too small",
          read |-> FALSE, parsed |-> FALSE]
    ELSE IF ~f.readOK
    THEN [footer |-> ZeroFooter, err |-> "could not read footer",
          read |-> TRUE, parsed |-> FALSE]
    ELSE LET r == parseFooter(f, BufLen(f.size), BufOff(f.size), f.size) IN
         [footer |-> IF r.err = "" THEN r.footer ELSE ZeroFooter,
          err |-> r.err, read |-> TRUE, parsed |-> TRUE]

\* A file nothing was written to.
NoFile == [size |-> 0]

\* No call of readFooter has returned yet.
NotRead ==
    [err |-> "", footer |-> ZeroFooter, read |-> FALSE, parsed |-> FALSE]

\* The reader opens a file ...
FInit ==
    /\ file \in Files
    /\ foot = NotRead
    /\ footDone = FALSE
    /\ encFooter = ZeroFooter

\* No sstable is being opened.
FUnused ==
    /\ file = NoFile
    /\ foot = NotRead
    /\ footDone = FALSE
    /\ encFooter = ZeroFooter

\* ... and reads its footer.
FReadFooter ==
    /\ ~footDone
    /\ footDone' = TRUE
    /\ foot' = readFooter(file)
    /\ UNCHANGED <<file, encFooter>>
    /\ UNCHANGED <<cvars, wvars, pvars>>
    /\ UNCHANGED ivars
    /\ UNCHANGED dvars
    /\ UNCHANGED <<vvars, svars>>

\* ------------------------------------------------- sstable footer: encode
\* TableFormat.AsTuple (format.go): the magic and the version of a format.
TableFormats == {"LevelDB", "RocksDBv2", "Pebblev1", "Pebblev2", "Pebblev3", "Pebblev4"}
AsTuple(format) ==
    CASE format = "LevelDB" -> [magic |-> levelDBMagic, version |-> 0]
      [] format = "RocksDBv2" -> [magic |-> rocksDBMagic, version |-> rocksDBFormatVersion2]
      [] format = "Pebblev1" -> [magic |-> pebbleDBMagic, version |-> 1]
      [] format = "Pebblev2" -> [magic |-> pebbleDBMagic, version |-> 2]
      [] format = "Pebblev3" -> [magic |-> pebbleDBMagic, version |-> 3]
      [] format = "Pebblev4" -> [magic |-> pebbleDBMagic, version |-> 4]
      [] OTHER -> [magic |-> <<>>, version |-> 0]

\* The length of the varint of a uint64: one byte for every 7 bits.
BitLen16(x) == CHOOSE n \in 0..16 : x < 2 ^ n /\ (n = 0 \/ x >= 2 ^ (n - 1))
Bits64(a) ==
    IF \A i \in 1..4 : a[i] = 0 THEN 0
    ELSE LET i == CHOOSE j \in 1..4 : a[j] # 0 /\ \A h \in 1..(j - 1) : a[h] = 0
         IN (4 - i) * 16 + BitLen16(a[i])
VarintLen(a) == IF Bits64(a) = 0 THEN 1 ELSE (Bits64(a) + 6) \div 7

\* block.Handle.EncodeVarints followed by block.DecodeHandle: the two varints
\* written are the bytes decoded.
EncodeVarints(h) == Decoded(VarintLen(h.Offset) + VarintLen(h.Length), h.Offset, h.Length)

\* The checksum types footer.encode writes (lines 378-387), and one it does not.
EncodeChecksumTypes == {"None", "CRC32c", "XXHash", "XXHash64"}

\* footer.encode, lines 366-401: the footer written behind `size` bytes of
\* blocks, or the panic.  The legacy layout holds no checksum byte and no
\* version.
encode(f, size) ==
    LET t == AsTuple(f.format) IN
    IF t.magic = levelDBMagic
    THEN [panic |-> "",
          file |-> [size |-> size + levelDBFooterLen, readOK |-> TRUE,
                    magic |-> levelDBMagic, version |-> 0, checksum |-> "absent",
                    metaindex |-> EncodeVarints(f.metaindexBH),
                    index |-> EncodeVarints(f.indexBH)]]
    ELSE IF t.magic \in {rocksDBMagic, pebbleDBMagic}
    THEN IF f.checksum \in EncodeChecksumTypes
         THEN [panic |-> "",
               file |-> [size |-> size + rocksDBFooterLen, readOK |-> TRUE,
                         magic |-> t.magic, version |-> t.version,
                         checksum |-> f.checksum,
                         metaindex |-> EncodeVarints(f.metaindexBH),
                         index |-> EncodeVarints(f.indexBH)]]
         ELSE [panic |-> "unknown checksum type", file |-> NoFile]
    ELSE [panic |-> "sstable: unspecified table format version", file |-> NoFile]

\* The footers a writer encodes: the blocks written before the footer take
\* BlockBytes bytes and the two handles lie within them.
BlockBytes == {40, 600}
HandleSamples ==
    {Handle(U64(0), U64(10)), Handle(U64(10), U64(30)), Handle(U64(300), U64(200))}
Footers ==
    {f \in [format : TableFormats \cup {"Unspecified"},
            checksum : EncodeChecksumTypes \cup {"Unknown"},
            metaindexBH : HandleSamples, indexBH : HandleSamples,
            footerBH : {Handle(U64(b), U64(0)) : b \in BlockBytes}] :
       /\ ~Gt64(Add64(f.metaindexBH.Offset, f.metaindexBH.Length).sum, f.footerBH.Offset)
       /\ ~Gt64(Add64(f.indexBH.Offset, f.indexBH.Length).sum, f.footerBH.Offset)}

\* A writer is about to write the footer of a table.
EInit ==
    /\ encFooter \in Footers
    /\ file = NoFile
    /\ foot = NotRead
    /\ footDone = FALSE

\* The writer encodes the footer and writes it behind the blocks.
EEncode ==
    /\ ~footDone
    /\ file = NoFile
    /\ LET e == encode(encFooter, encFooter.footerBH.Offset[4]) IN
       IF e.panic = ""
       THEN file' = e.file /\ UNCHANGED <<foot, footDone>>
       ELSE /\ foot' = [NotRead EXCEPT !.err = e.panic]
            /\ footDone' = TRUE
            /\ UNCHANGED file
    /\ UNCHANGED encFooter
    /\ UNCHANGED <<cvars, wvars, pvars>>
    /\ UNCHANGED ivars
    /\ UNCHANGED dvars
    /\ UNCHANGED <<vvars, svars>>

\* ------------------------------------------------- sstable footer: properties
\* The handle lies within the file: offset + length, taken without wrapping,
\* is at most the file size.
LiesWithinFile(h, size) ==
    /\ Add64(h.Offset, h.Length).carry = 0
    /\ ~Gt64(Add64(h.Offset, h.Length).sum, U64(size))

\* C11: readFooter returns the corruption error "file size is too small" for
\* every file smaller than the minimum footer length of 48 bytes, and neither
\* reads the file nor parses anything.
C11_TooSmallFile ==
    (footDone /\ file.size < 48) =>
        /\ foot.err = "file size is too small"
        /\ ~foot.read
        /\ ~foot.parsed
        /\ foot.footer = ZeroFooter

\* A file of 47 bytes was refused.
C11_Witness ==
    /\ footDone
    /\ file.size = 47
    /\ foot.err = "file size is too small"

\* C12: parseFooter returns a corruption error whenever the metaindex or the
\* index handle it decoded does not lie within the file, for every 64-bit
\* offset and length, also when their sum wraps around modulo 2^64.
C12_HandlesWithinFile ==
    (footDone /\ foot.parsed /\ foot.err = "") =>
        /\ LiesWithinFile(file.metaindex.h, file.size)
        /\ LiesWithinFile(file.index.h, file.size)

\* C13 as claimed: each of the three recognized magics selects a footer
\* layout and size of its own, and a footer ending in any other magic is
\* reported as corruption (bad magic number).
C13_ThreeLayouts ==
    /\ (footDone /\ foot.err = "") =>
           \A m \in {levelDBMagic, rocksDBMagic, pebbleDBMagic} \ {file.magic} :
              U64(FooterLen(m)) # foot.footer.footerBH.Length
    /\ (footDone /\ foot.parsed /\ file.magic \in OtherMagics) =>
           foot.err = "bad magic number"

\* C13 as amended: the LevelDB magic selects the legacy layout of 48 bytes
\* (no checksum byte, no version: CRC32c and the LevelDB format), the RocksDB
\* and the Pebble magic both select the layout of 53 bytes with a checksum
\* byte and a version, which with the magic gives the format; a footer ending
\* in any other magic is reported as corruption (bad magic number).
C13_TwoLayouts ==
    (footDone /\ foot.parsed) =>
        /\ (file.magic = levelDBMagic /\ foot.err = "") =>
               /\ foot.footer.footerBH = Handle(U64(file.size - 48), U64(48))
               /\ foot.footer.format = "LevelDB"
               /\ foot.footer.checksum = "CRC32c"
        /\ (file.magic \in {rocksDBMagic, pebbleDBMagic} /\ foot.err = "") =>
               /\ foot.footer.footerBH = Handle(U64(file.size - 53), U64(53))
               /\ foot.footer.format =
                      ParseTableFormat(file.magic, file.version).format
               /\ foot.footer.checksum = file.checksum
        /\ (file.magic \in {rocksDBMagic, pebbleDBMagic} /\ file.size < 53) =>
               foot.err = "footer too short"
        /\ file.magic \in OtherMagics => foot.err = "bad magic number"

\* A table with the Pebble magic was opened: its footer is the last 53 bytes.
C13_Witness ==
    /\ footDone
    /\ foot.err = ""
    /\ file.magic = pebbleDBMagic
    /\ file.size = 64
    /\ foot.footer.footerBH = Handle(U64(11), U64(53))
    /\ foot.footer.format = "Pebblev4"

\* C26: footer round trip: for every footer footer.encode accepts (every table
\* format, the checksum types None, CRC32c, XXHash and XXHash64) with handles
\* inside the file, parsing the encoded bytes succeeds and returns the same
\* format, checksum and handles, footerBH being the last footer-length bytes.
C26_RoundTrip ==
    (footDone /\ file # NoFile) =>
        /\ foot.err = ""
        /\ foot.footer.format = encFooter.format
        /\ foot.footer.checksum = encFooter.checksum
        /\ foot.footer.metaindexBH = encFooter.metaindexBH
        /\ foot.footer.indexBH = encFooter.indexBH
        /\ foot.footer.footerBH =
               Handle(U64(file.size - FooterLen(file.magic)), U64(FooterLen(file.magic)))

\* The part of the round trip that holds: a footer written with a checksum
\* type the reader supports, in a layout that stores it, is read back as
\* written.
C26_RoundTripSupported ==
    (footDone /\ file # NoFile /\ encFooter.format # "LevelDB"
       /\ encFooter.checksum \in {"CRC32c", "XXHash64"}) =>
        /\ foot.err = ""
        /\ foot.footer.format = encFooter.format
        /\ foot.footer.checksum = encFooter.checksum
        /\ foot.footer.metaindexBH = encFooter.metaindexBH
        /\ foot.footer.indexBH = encFooter.indexBH

\* C27: parseFooter chooses the layout from the magic: the LevelDB magic needs
\* 48 bytes and gives the LevelDB format with CRC32c whatever the bytes hold
\* at the place of a checksum; the RocksDB and the Pebble magic need 53 bytes,
\* a file of 48 to 52 bytes being a footer too short, take the format from the
\* magic and the version, and take no checksum byte but CRC32c and XXHash64.
C27_LayoutChoice ==
    (footDone /\ foot.parsed) =>
        /\ file.magic = levelDBMagic =>
               /\ foot.err \notin {"footer too short", "unsupported checksum type"}
               /\ foot.err = "" =>
                      /\ foot.footer.format = "LevelDB"
                      /\ foot.footer.checksum = "CRC32c"
        /\ file.magic \in {rocksDBMagic, pebbleDBMagic} =>
               /\ foot.err = "footer too short" <=> file.size \in 48..52
               /\ (file.size >= 53
                     /\ ParseTableFormat(file.magic, file.version).err = ""
                     /\ file.checksum \notin {"CRC32c", "XXHash64"}) =>
                      foot.err = "unsupported checksum type"
               /\ foot.err = "" =>
                      /\ foot.footer.format =
                             ParseTableFormat(file.magic, file.version).format
                      /\ foot.footer.format # "Unspecified"
                      /\ foot.footer.checksum = file.checksum
                      /\ foot.footer.checksum \in {"CRC32c", "XXHash64"}

\* A Pebble table of 53 bytes whose checksum byte is that of no checksum was
\* refused.
C27_Witness ==
    /\ footDone
    /\ file.magic = pebbleDBMagic
    /\ file.version = 4
    /\ file.size = 53
    /\ file.checksum = "None"
    /\ foot.err = "unsupported checksum type"

\* --------------------------------------------- external iterator: test data
\* The key prefixes of testdata/external_iterator with their rank in bytewise
\* order; a key
\* "p@v" is the prefix p with the suffix @v, suffix 0 standing for no suffix.
Alphabet ==
    ("a" :> 1) @@ ("b" :> 2) @@ ("bb" :> 3) @@ ("c" :> 4) @@ ("d" :> 5) @@ ("e" :> 6)
    @@ ("f" :> 7) @@ ("g" :> 8) @@ ("k" :> 9) @@ ("p" :> 10) @@ ("z" :> 11)
Rank(p) == Alphabet[p]
IKey(p, v) == [prefix |-> p, suffix |-> v]
NoIKey == IKey("", 0)

\* testkeys.Comparer.Compare: prefixes bytewise, then a key without suffix
\* before the keys with one, and a larger suffix before a smaller one.
TestKeysCompare(a, b) ==
    IF a.prefix # b.prefix THEN Compare(Rank(a.prefix), Rank(b.prefix))
    ELSE IF a.suffix = b.suffix THEN 0
    ELSE IF a.suffix = 0 THEN -1
    ELSE IF b.suffix = 0 THEN 1
    ELSE Compare(b.suffix, a.suffix)
KeyLt(a, b) == TestKeysCompare(a, b) < 0
KeyLeq(a, b) == TestKeysCompare(a, b) <= 0

\* The lines of a build command.
PointSet(p, v, value) == [key |-> IKey(p, v), kind |-> InternalKeyKindSet, value |-> value]
PointMerge(p, v, value) == [key |-> IKey(p, v), kind |-> InternalKeyKindMerge, value |-> value]
DelRange(s, e) == [end |-> IKey(e, 0), start |-> IKey(s, 0)]
RangeKeySet(s, e, v, value) ==
    [suffix |-> v, value |-> value, end |-> IKey(e, 0), start |-> IKey(s, 0)]
RangeKeyDel(s, e) == [end |-> IKey(e, 0), start |-> IKey(s, 0)]
SSTable(points, rangeDels, rangeKeySets, rangeKeyDels) ==
    [points |-> points, rangeDels |-> rangeDels,
     rangeKeySets |-> rangeKeySets, rangeKeyDels |-> rangeKeyDels]

\* The files built by testdata/external_iterator.
FileNames == {"1", "2", "3", "4", "5", "6", "ag", "ek", "points", "stacked"}
Built ==
    [n \in FileNames |->
       CASE n = "1" -> SSTable({PointSet("b", 0, "b"), PointSet("c", 0, "c")}, {}, {}, {})
         [] n = "2" -> SSTable({}, {DelRange("c", "z")}, {}, {})
         [] n = "3" -> SSTable({PointSet("a", 0, "a"), PointSet("f", 0, "f")}, {}, {}, {})
         [] n = "4" -> SSTable({}, {}, {RangeKeySet("a", "c", 2, "foo"),
                                       RangeKeySet("c", "e", 3, "bar")}, {})
         [] n = "5" -> SSTable({}, {}, {}, {RangeKeyDel("b", "d")})
         [] n = "6" -> SSTable({PointMerge("bb", 0, "ac")}, {}, {}, {})
         [] n = "ag" -> SSTable({}, {}, {RangeKeySet("a", "g", 5, "foo")}, {})
         [] n = "ek" -> SSTable({}, {}, {RangeKeySet("e", "k", 5, "foo")}, {})
         [] n = "points" ->
               SSTable({PointSet("a", 4, "v"), PointSet("c", 2, "v"),
                        PointSet("d", 9, "v"), PointSet("e", 5, "v"),
                        PointSet("k", 3, "v"), PointSet("p", 4, "v")}, {}, {}, {})
         [] OTHER -> SSTable({}, {}, {RangeKeySet("a", "k", 4, "bar"),
                                      RangeKeySet("a", "k", 1, "bax")}, {})]

\* ---------------------------------------- external iterator: the merged view
\* The iterator reads the files of an iter command, the most recent first,
\* with the options of the command (mask 0: no range-key masking).
IterFiles(names, mask) == [files |-> names, mask |-> mask]
FileAt(it, i) == Built[it.files[i]]

Covers(span, k) == KeyLeq(span.start, k) /\ KeyLt(k, span.end)

\* (mutant) a range deletion hides the points of every file, its own age
\* notwithstanding.
RangeDeletedAnyAge(it, k, i) ==
    \E j \in DOMAIN it.files : \E d \in FileAt(it, j).rangeDels : Covers(d, k)

\* A point of file i is deleted by a range deletion of a more recent file.
RangeDeleted(it, k, i) ==
    \E j \in 1..(i - 1) : \E d \in FileAt(it, j).rangeDels : Covers(d, k)

\* (mutant) range-key deletes are ignored.
RangeKeysAtNoDelete(it, k) ==
    {[suffix |-> rk.suffix, value |-> rk.value] :
       rk \in {r \in UNION {{[i |-> i, start |-> s.start, end |-> s.end,
                               suffix |-> s.suffix, value |-> s.value] :
                                s \in FileAt(it, i).rangeKeySets} :
                             i \in DOMAIN it.files} :
                 /\ Covers(r, k)
                 /\ \A j \in 1..(r.i - 1) :
                       \A s \in FileAt(it, j).rangeKeySets :
                          ~(Covers(s, k) /\ s.suffix = r.suffix)}}

\* The range keys (suffix, value) in force at key k: for each suffix the most
\* recent set covering k, unless a more recent file deletes the range keys
\* at k.
RangeKeysAt(it, k) ==
    {[suffix |-> rk.suffix, value |-> rk.value] :
       rk \in {r \in UNION {{[i |-> i, start |-> s.start, end |-> s.end,
                               suffix |-> s.suffix, value |-> s.value] :
                                s \in FileAt(it, i).rangeKeySets} :
                             i \in DOMAIN it.files} :
                 /\ Covers(r, k)
                 /\ \A j \in 1..(r.i - 1) :
                       /\ \A d \in FileAt(it, j).rangeKeyDels : ~Covers(d, k)
                       /\ \A s \in FileAt(it, j).rangeKeySets :
                             ~(Covers(s, k) /\ s.suffix = r.suffix)}}

\* The keys at which the range-key state may change: the bounds of the range
\* key sets and deletes of the files (the fragment boundaries).
Boundaries(it) ==
    UNION {{s.start : s \in FileAt(it, i).rangeKeySets \cup FileAt(it, i).rangeKeyDels}
           \cup {s.end : s \in FileAt(it, i).rangeKeySets \cup FileAt(it, i).rangeKeyDels} :
             i \in DOMAIN it.files}

NoSpan == [end |-> NoIKey, start |-> NoIKey, keys |-> {}]

\* (mutant) fragments are reported as they are, not defragmented.
SpanAtFragment(it, k) ==
    LET B == Boundaries(it)
        keys == RangeKeysAt(it, k)
    IN IF keys = {} THEN NoSpan
       ELSE [start |-> CHOOSE b \in B : KeyLeq(b, k) /\
                          \A c \in B : KeyLeq(c, k) => KeyLeq(c, b),
             end |-> CHOOSE e \in B : KeyLt(k, e) /\
                          \A c \in B : KeyLt(k, c) => KeyLeq(e, c),
             keys |-> keys]

\* The range-key span covering k: the fragments around k that carry the range
\* keys in force at k, merged into one span (defragmented); NoSpan where no
\* range key is in force.
SpanAt(it, k) ==
    LET B == Boundaries(it)
        keys == RangeKeysAt(it, k)
        Same(b) == RangeKeysAt(it, b) = keys
        StartOK(b) == KeyLeq(b, k) /\
                      \A c \in B : (KeyLeq(b, c) /\ KeyLeq(c, k)) => Same(c)
        EndOK(e) == KeyLt(k, e) /\ ~Same(e) /\
                    \A c \in B : (KeyLt(k, c) /\ KeyLt(c, e)) => Same(c)
    IN IF keys = {} THEN NoSpan
       ELSE [start |-> CHOOSE b \in B : StartOK(b) /\
                          \A c \in B : StartOK(c) => KeyLeq(b, c),
             end |-> CHOOSE e \in B : EndOK(e),
             keys |-> keys]

\* (mutant) the mask hides every covered point below the mask suffix.
MaskedBelowMask(it, k) ==
    /\ it.mask # 0
    /\ k.suffix # 0
    /\ \E rk \in RangeKeysAt(it, k) :
          rk.suffix # 0 /\ rk.suffix <= it.mask /\ k.suffix < it.mask

\* Range-key masking: a point with a suffix is hidden by a range key that
\* covers it, whose suffix is at or below the mask suffix and above the
\* point's suffix.
Masked(it, k) ==
    /\ it.mask # 0
    /\ k.suffix # 0
    /\ \E rk \in RangeKeysAt(it, k) :
          rk.suffix # 0 /\ rk.suffix <= it.mask /\ k.suffix < rk.suffix

\* The point the iterator surfaces at user key k: the one of the most recent
\* file that has the key, unless a range deletion or the mask hides it.
NoPoint == [value |-> ".", found |-> FALSE]
PointAt(it, k) ==
    LET has == {i \in DOMAIN it.files : \E p \in FileAt(it, i).points : p.key = k}
    IN IF has = {} THEN NoPoint
       ELSE LET i == CHOOSE i \in has : \A j \in has : i <= j
                p == CHOOSE p \in FileAt(it, i).points : p.key = k
            IN IF RangeDeleted(it, k, i) \/ Masked(it, k) THEN NoPoint
               ELSE [found |-> TRUE, value |-> p.value]

\* The keys of the test data: the prefixes, and the keys with a suffix of the
\* file "points".
KeySpace ==
    {IKey(p, 0) : p \in DOMAIN Alphabet}
    \cup {p.key : p \in Built["points"].points}

\* The keys the iterator stops at when it steps: the points it surfaces and
\* the start keys of the range-key spans.
EntryKeys(it) ==
    {k \in KeySpace : PointAt(it, k).found}
    \cup {SpanAt(it, b).start : b \in {c \in Boundaries(it) : RangeKeysAt(it, c) # {}}}

MinKey(S) == CHOOSE k \in S : \A c \in S : KeyLeq(k, c)
MaxKey(S) == CHOOSE k \in S : \A c \in S : KeyLeq(c, k)

\* ------------------------------------- external iterator: the test's blocks
\* IterValidityState.
IterExhausted == "IterExhausted"
IterValid == "IterValid"
IterAtLimit == "IterAtLimit"

\* A line of an iter command, and the line printIterState prints for it.
Cmd(op, key, limit) == [key |-> key, op |-> op, limit |-> limit]
CmdFirst == Cmd("first", NoIKey, NoIKey)
CmdNext == Cmd("next", NoIKey, NoIKey)
CmdPrev == Cmd("prev", NoIKey, NoIKey)
CmdSeekGE(p) == Cmd("seek-ge", IKey(p, 0), NoIKey)
CmdSeekLT(p) == Cmd("seek-lt", IKey(p, 0), NoIKey)
\* set-options [key-types=kt] [lower=lo] [upper=up]: "" for an argument that
\* is not given.
CmdSetOptions(kt, lo, up) ==
    Cmd(IF kt = "" THEN "set-options" ELSE "set-options key-types=" \o kt,
        IF lo = "" THEN NoIKey ELSE IKey(lo, 0),
        IF up = "" THEN NoIKey ELSE IKey(up, 0))

RK(v, value) == [suffix |-> v, value |-> value]
Line(key, point, start, end, keys, updated) ==
    [key |-> key, end |-> end, start |-> start, keys |-> keys,
     point |-> point, updated |-> updated, valid |-> TRUE, validity |-> "",
     hasRange |-> keys # <<>>]
PointLine(p, v, value, updated) ==
    Line(IKey(p, v), value, NoIKey, NoIKey, <<>>, updated)
RangeLine(p, v, value, s, e, keys, updated) ==
    Line(IKey(p, v), value, IKey(s, 0), IKey(e, 0), keys, updated)
Dot(validity) ==
    [key |-> NoIKey, end |-> NoIKey, start |-> NoIKey, keys |-> <<>>,
     point |-> ".", updated |-> FALSE, valid |-> FALSE, validity |-> validity,
     hasRange |-> FALSE]
Expect(c, l) == [cmd |-> c, line |-> l]

\* The iter commands of testdata/external_iterator with their expected
\* output (lines 13-195).
Blocks ==
    <<[it |-> IterFiles(<<"1">>, 0),
       script |-> <<Expect(CmdFirst, PointLine("b", 0, "b", FALSE)),
                    Expect(CmdNext, PointLine("c", 0, "c", FALSE)),
                    Expect(CmdNext, Dot(""))>>],
      [it |-> IterFiles(<<"1">>, 0),
       script |-> <<Expect(CmdSeekGE("bb"), PointLine("c", 0, "c", FALSE)),
                    Expect(CmdNext, Dot(""))>>],
      [it |-> IterFiles(<<"2", "1">>, 0),
       script |-> <<Expect(CmdFirst, PointLine("b", 0, "b", FALSE)),
                    Expect(CmdNext, Dot(""))>>],
      [it |-> IterFiles(<<"3", "2", "1">>, 0),
       script |-> <<Expect(CmdFirst, PointLine("a", 0, "a", FALSE)),
                    Expect(CmdNext, PointLine("b", 0, "b", FALSE)),
                    Expect(CmdNext, PointLine("f", 0, "f", FALSE)),
                    Expect(CmdNext, Dot(""))>>],
      [it |-> IterFiles(<<"5", "4", "3", "2", "1">>, 0),
       script |-> <<Expect(CmdFirst, RangeLine("a", 0, "a", "a", "b", <<RK(2, "foo")>>, TRUE)),
                    Expect(CmdNext, PointLine("b", 0, "b", TRUE)),
                    Expect(CmdNext, RangeLine("d", 0, ".", "d", "e", <<RK(3, "bar")>>, TRUE)),
                    Expect(CmdNext, PointLine("f", 0, "f", TRUE)),
                    Expect(CmdNext, Dot(""))>>],
      [it |-> IterFiles(<<"6", "5", "4", "3", "2", "1">>, 0),
       script |-> <<Expect(CmdSeekLT("c"), PointLine("bb", 0, "ac", FALSE)),
                    Expect(CmdPrev, PointLine("b", 0, "b", FALSE)),
                    Expect(CmdNext, PointLine("bb", 0, "ac", FALSE)),
                    Expect(CmdNext, RangeLine("d", 0, ".", "d", "e", <<RK(3, "bar")>>, TRUE))>>],
      [it |-> IterFiles(<<"6", "5", "4", "3", "2", "1">>, 0),
       script |-> <<Expect(CmdSeekGE("b"), PointLine("b", 0, "b", FALSE)),
                    Expect(CmdNext, PointLine("bb", 0, "ac", FALSE)),
                    Expect(CmdPrev, PointLine("b", 0, "b", FALSE)),
                    Expect(CmdPrev, RangeLine("a", 0, "a", "a", "b", <<RK(2, "foo")>>, TRUE)),
                    Expect(CmdNext, PointLine("b", 0, "b", TRUE)),
                    Expect(CmdNext, PointLine("bb", 0, "ac", FALSE)),
                    Expect(CmdNext, RangeLine("d", 0, ".", "d", "e", <<RK(3, "bar")>>, TRUE))>>],
      [it |-> IterFiles(<<"ag", "ek">>, 0),
       script |-> <<Expect(CmdFirst, RangeLine("a", 0, ".", "a", "k", <<RK(5, "foo")>>, TRUE)),
                    Expect(CmdNext, Dot(""))>>],
      [it |-> IterFiles(<<"points", "ag", "ek">>, 7),
       script |-> <<Expect(CmdFirst, RangeLine("a", 0, ".", "a", "k", <<RK(5, "foo")>>, TRUE)),
                    Expect(CmdNext, RangeLine("d", 9, "v", "a", "k", <<RK(5, "foo")>>, FALSE)),
                    Expect(CmdNext, RangeLine("e", 5, "v", "a", "k", <<RK(5, "foo")>>, FALSE)),
                    Expect(CmdNext, PointLine("k", 3, "v", TRUE)),
                    Expect(CmdNext, PointLine("p", 4, "v", FALSE)),
                    Expect(CmdNext, Dot(""))>>],
      [it |-> IterFiles(<<"points", "ag", "ek", "stacked">>, 0),
       script |-> <<Expect(CmdFirst, RangeLine("a", 0, ".", "a", "k",
                                  <<RK(5, "foo"), RK(4, "bar"), RK(1, "bax")>>, TRUE)),
                    Expect(CmdNext, RangeLine("a", 4, "v", "a", "k",
                                  <<RK(5, "foo"), RK(4, "bar"), RK(1, "bax")>>, FALSE))>>],
      [it |-> IterFiles(<<"points", "ag", "ek">>, 0),
       script |-> <<Expect(CmdSetOptions("point", "", ""), Dot("")),
                    Expect(CmdFirst, PointLine("a", 4, "v", FALSE)),
                    Expect(CmdNext, PointLine("c", 2, "v", FALSE)),
                    Expect(CmdSetOptions("", "e", "p"), Dot("")),
                    Expect(CmdFirst, PointLine("e", 5, "v", FALSE)),
                    Expect(CmdNext, PointLine("k", 3, "v", FALSE))>>]>>

\* The block of the test that changes the options (lines 182-195).
SetOptionsBlock == 11

\* The merged view of the files of each block.
View ==
    [b \in DOMAIN Blocks |->
       [span |-> [k \in KeySpace |-> SpanAt(Blocks[b].it, k)],
        point |-> [k \in KeySpace |-> PointAt(Blocks[b].it, k)],
        entries |-> EntryKeys(Blocks[b].it)]]

\* No files are open.
NoView == [span |-> <<>>, point |-> <<>>, entries |-> {}]

\* IterOptions: the key types and the bounds (NoIKey: no bound); the options
\* of an iterator just created, and those the test sets.
Opts(kt, lo, up) == [keyTypes |-> kt, lower |-> lo, upper |-> up]
DefaultOpts == Opts("both", NoIKey, NoIKey)
OptionSets ==
    {Opts(kt, lo, up) : kt \in {"both", "point"}, lo \in {NoIKey, IKey("e", 0)},
                        up \in {NoIKey, IKey("p", 0)}}

\* A key within the bounds: the lower bound is inclusive, the upper exclusive.
InBounds(o, k) ==
    /\ o.lower # NoIKey => KeyLeq(o.lower, k)
    /\ o.upper # NoIKey => KeyLt(k, o.upper)

\* The merged view under options: no range keys when the key types are points
\* only, and nothing outside the bounds, which truncate the spans.
OptSpanAt(it, o, k) ==
    LET sp == SpanAt(it, k) IN
    IF o.keyTypes = "point" \/ ~InBounds(o, k) \/ sp = NoSpan THEN NoSpan
    ELSE [end |-> IF o.upper # NoIKey /\ KeyLt(o.upper, sp.end) THEN o.upper ELSE sp.end,
          start |-> IF o.lower # NoIKey /\ KeyLt(sp.start, o.lower) THEN o.lower
                    ELSE sp.start,
          keys |-> sp.keys]
OptView(it, o) ==
    [span |-> [k \in KeySpace |-> OptSpanAt(it, o, k)],
     point |-> [k \in KeySpace |-> IF InBounds(o, k) THEN PointAt(it, k) ELSE NoPoint],
     entries |-> {k \in KeySpace : InBounds(o, k) /\ PointAt(it, k).found}
                 \cup {OptSpanAt(it, o, k).start :
                         k \in {c \in KeySpace : OptSpanAt(it, o, c) # NoSpan}}]

\* (mutant) lower= is not read.
parseIterOptionsNoLower(opts, c) ==
    [keyTypes |-> IF c.op = "set-options key-types=point" THEN "point"
                  ELSE IF c.op = "set-options key-types=both" THEN "both"
                  ELSE opts.keyTypes,
     lower |-> opts.lower,
     upper |-> IF c.limit # NoIKey THEN c.limit ELSE opts.upper]

\* parseIterOptions, lines 269-321, for key-types=, lower= and upper=: the
\* arguments given replace the options of the iterator, the others stay.
parseIterOptions(opts, c) ==
    [keyTypes |-> IF c.op = "set-options key-types=point" THEN "point"
                  ELSE IF c.op = "set-options key-types=both" THEN "both"
                  ELSE opts.keyTypes,
     lower |-> IF c.key # NoIKey THEN c.key ELSE opts.lower,
     upper |-> IF c.limit # NoIKey THEN c.limit ELSE opts.upper]

\* --------------------------------------------- external iterator: the model
\* Where the iterator stands: at a key, between two entries (before or after
\* the entry of a key, where a step with a limit stopped), before the first
\* or after the last entry, or nowhere yet.
At(k) == [key |-> k, at |-> "at"]
Before(k) == [key |-> k, at |-> "before"]
After(k) == [key |-> k, at |-> "after"]
AtStart == [key |-> NoIKey, at |-> "start"]
AtEnd == [key |-> NoIKey, at |-> "end"]
Unpositioned == [key |-> NoIKey, at |-> "none"]

\* (mutant) a step back from a key stays at the key.
BehindInclusive(mv, cur) ==
    {e \in mv.entries :
        CASE cur.at = "at" -> KeyLeq(e, cur.key)
          [] cur.at = "before" -> KeyLt(e, cur.key)
          [] cur.at = "after" -> KeyLeq(e, cur.key)
          [] cur.at = "end" -> TRUE
          [] OTHER -> FALSE}

\* The entries ahead of and behind a position.
Ahead(mv, cur) ==
    {e \in mv.entries :
        CASE cur.at = "at" -> KeyLt(cur.key, e)
          [] cur.at = "after" -> KeyLt(cur.key, e)
          [] cur.at = "before" -> KeyLeq(cur.key, e)
          [] cur.at = "start" -> TRUE
          [] OTHER -> FALSE}
Behind(mv, cur) ==
    {e \in mv.entries :
        CASE cur.at = "at" -> KeyLt(e, cur.key)
          [] cur.at = "before" -> KeyLt(e, cur.key)
          [] cur.at = "after" -> KeyLeq(e, cur.key)
          [] cur.at = "end" -> TRUE
          [] OTHER -> FALSE}

\* The keys a seek to k can land on: the entries at or after k, and k itself
\* when a range-key span covers it.
AtOrAfter(mv, k) ==
    {e \in mv.entries : KeyLeq(k, e)}
    \cup (IF mv.span[k] # NoSpan THEN {k} ELSE {})
StrictlyBefore(mv, k) == {e \in mv.entries : KeyLt(e, k)}

\* Prefix iteration stays within the keys of one prefix.
InPrefix(S, prefix) == IF prefix = "" THEN S ELSE {e \in S : Prefix(e) = prefix}

\* A forward seek or step over the candidate keys S: exhausted when there is
\* none, at-limit when the first is at or beyond the limit (exclusive), else
\* valid at the first.
Forward(S, limit) ==
    IF S = {} THEN [state |-> IterExhausted, cursor |-> AtEnd]
    ELSE IF limit # NoIKey /\ KeyLeq(limit, MinKey(S))
    THEN [state |-> IterAtLimit, cursor |-> Before(MinKey(S))]
    ELSE [state |-> IterValid, cursor |-> At(MinKey(S))]

\* A backward seek or step: the limit is inclusive.
Backward(S, limit) ==
    IF S = {} THEN [state |-> IterExhausted, cursor |-> AtStart]
    ELSE IF limit # NoIKey /\ KeyLt(MaxKey(S), limit)
    THEN [state |-> IterAtLimit, cursor |-> After(MaxKey(S))]
    ELSE [state |-> IterValid, cursor |-> At(MaxKey(S))]

\* The positioning operations of Iterator: the validity state and position
\* they leave, and the prefix the iteration is restricted to.
Positioned(mv, cur, prefix, c) ==
    LET with(r, p) == [state |-> r.state, cursor |-> r.cursor, prefix |-> p] IN
    CASE c.op = "first" -> with(Forward(mv.entries, NoIKey), "")
      [] c.op = "last" -> with(Backward(mv.entries, NoIKey), "")
      [] c.op = "seek-ge" -> with(Forward(AtOrAfter(mv, c.key), NoIKey), "")
      [] c.op = "seek-prefix-ge" ->
            with(Forward(InPrefix(AtOrAfter(mv, c.key), Prefix(c.key)), NoIKey),
                 Prefix(c.key))
      [] c.op = "seek-lt" -> with(Backward(StrictlyBefore(mv, c.key), NoIKey), "")
      [] c.op = "seek-ge-limit" -> with(Forward(AtOrAfter(mv, c.key), c.limit), "")
      [] c.op = "seek-lt-limit" ->
            with(Backward(StrictlyBefore(mv, c.key), c.limit), "")
      [] c.op = "next" -> with(Forward(InPrefix(Ahead(mv, cur), prefix), NoIKey), prefix)
      [] c.op = "next-limit" ->
            with(Forward(InPrefix(Ahead(mv, cur), prefix), c.limit), prefix)
      [] c.op = "next-prefix" ->
            with(Forward({e \in InPrefix(Ahead(mv, cur), prefix) :
                            Prefix(e) # Prefix(cur.key)}, NoIKey), prefix)
      [] c.op = "prev" -> with(Backward(Behind(mv, cur), NoIKey), prefix)
      [] OTHER -> with(Backward(Behind(mv, cur), c.limit), prefix)

\* (mutant) only stepping into a range key is flagged, not stepping out.
RangeKeyChangedOnEntry(old, new) == new # NoSpan /\ new # old

\* Iterator.RangeKeyChanged: the span of the new position is not the span of
\* the previous one; a position that is not valid has no span.
RangeKeyChanged(old, new) == new # old

\* Iterator.Valid and Iterator.HasPointAndRange.
Valid(state) == state = IterValid
HasPointAndRange(mv, cur, state, span) ==
    [point |-> Valid(state) /\ mv.point[cur.key].found,
     range |-> Valid(state) /\ span # NoSpan]

\* Iterator.RangeKeys: the range keys of the span, larger suffixes first.
RECURSIVE RangeKeys(_)
RangeKeys(keys) ==
    IF keys = {} THEN <<>>
    ELSE LET m == CHOOSE x \in keys : \A y \in keys : x.suffix >= y.suffix
         IN <<m>> \o RangeKeys(keys \ {m})

\* ------------------------------------------- runIterCmd and printIterState
LimitOps == {"seek-ge-limit", "seek-lt-limit", "next-limit", "prev-limit"}

\* (mutant) at-limit and exhausted taken for each other.
ValidityStateStrSwapped(validity, printValidityState) ==
    IF ~printValidityState THEN ""
    ELSE IF validity = IterExhausted THEN " at-limit"
    ELSE IF validity = IterValid THEN " valid"
    ELSE " exhausted"

\* printIterState, lines 326-336.
ValidityStateStr(validity, printValidityState) ==
    IF ~printValidityState THEN ""
    ELSE IF validity = IterExhausted THEN " exhausted"
    ELSE IF validity = IterValid THEN " valid"
    ELSE " at-limit"

\* (mutant) a position counts only when it has both a point and a range key.
HasEitherBoth(hasPoint, hasRange) == hasPoint /\ hasRange

\* runIterCmd, line 256.
HasEither(hasPoint, hasRange) == hasPoint \/ hasRange

\* printIterState, lines 323-382, for an iterator of points and range keys
\* that has no error.
printIterState(mv, cur, state, span, updated, validity, printValidityState) ==
    LET has == HasPointAndRange(mv, cur, state, span) IN
    IF validity = IterValid
    THEN [key |-> cur.key,
          end |-> IF has.range THEN span.end ELSE NoIKey,
          start |-> IF has.range THEN span.start ELSE NoIKey,
          keys |-> IF has.range THEN RangeKeys(span.keys) ELSE <<>>,
          point |-> IF has.point THEN mv.point[cur.key].value ELSE ".",
          updated |-> updated,
          valid |-> TRUE,
          validity |-> ValidityStateStr(validity, printValidityState),
          hasRange |-> has.range]
    ELSE Dot(ValidityStateStr(validity, printValidityState))

\* runIterCmd, lines 74-265, for one line of the command: what the iterator
\* returned, the two consistency checks of lines 251-259, and the line
\* printed.
runIterCmd(mv, cur, state, span, updated, c) ==
    LET printValidityState == c.op \in LimitOps
        returned == IF printValidityState THEN FALSE ELSE Valid(state)
        validityState == IF printValidityState THEN state ELSE IterExhausted
        valid == returned \/ validityState = IterValid
        has == HasPointAndRange(mv, cur, state, span)
    IN [line |-> printIterState(mv, cur, state, span, updated,
                                IF valid THEN IterValid ELSE validityState,
                                printValidityState),
        mismatchedValid |-> valid # Valid(state),
        mismatchedHas |-> HasEither(has.point, has.range) # valid]

\* The keys the test seeks to and the limits it gives.
SeekKeys == {IKey(p, 0) : p \in {"a", "b", "bb", "c", "d", "f", "k", "z"}}
LimitKeys == {IKey(p, 0) : p \in {"b", "d", "k"}}

NoOutput == [line |-> Dot(""), mismatchedValid |-> FALSE, mismatchedHas |-> FALSE]

\* An iter command of the test data creates the iterator over its files.
IInit ==
    /\ block \in DOMAIN Blocks \ {SetOptionsBlock}
    /\ cursor = Unpositioned
    /\ iterValidityState = IterExhausted
    /\ rangeKey = NoSpan
    /\ rangeKeyChanged = FALSE
    /\ prefixMode = ""
    /\ cmd = Cmd("iter", NoIKey, NoIKey)
    /\ out = NoOutput
    /\ merged = View[block]
    /\ iterOpts = DefaultOpts
    /\ optViews = <<>>
    /\ step = 0

\* The iter command of the block that changes the options.
OInit ==
    /\ block = SetOptionsBlock
    /\ cursor = Unpositioned
    /\ iterValidityState = IterExhausted
    /\ rangeKey = NoSpan
    /\ rangeKeyChanged = FALSE
    /\ prefixMode = ""
    /\ cmd = Cmd("iter", NoIKey, NoIKey)
    /\ out = NoOutput
    /\ merged = View[block]
    /\ iterOpts = DefaultOpts
    /\ optViews = [o \in OptionSets |-> OptView(Blocks[block].it, o)]
    /\ step = 0

\* No iterator is open.
IUnused ==
    /\ block = 0
    /\ cursor = Unpositioned
    /\ iterValidityState = IterExhausted
    /\ rangeKey = NoSpan
    /\ rangeKeyChanged = FALSE
    /\ prefixMode = ""
    /\ cmd = Cmd("", NoIKey, NoIKey)
    /\ out = NoOutput
    /\ merged = NoView
    /\ iterOpts = DefaultOpts
    /\ optViews = <<>>
    /\ step = 0

\* One line of an iter command.  A step needs a position to step from, and
\* prefix iteration does not step backwards.  step counts the lines of the
\* block's script the commands have followed so far (-1 once they left it).
RunIterCmd(c) ==
    /\ c.op \in {"next", "next-limit", "prev", "prev-limit"} => cursor.at # "none"
    /\ c.op = "next-prefix" => cursor.at = "at"
    /\ c.op \in {"prev", "prev-limit"} => prefixMode = ""
    /\ LET r == Positioned(merged, cursor, prefixMode, c)
           span == IF Valid(r.state) THEN merged.span[r.cursor.key] ELSE NoSpan
           changed == RangeKeyChanged(rangeKey, span)
       IN /\ cursor' = r.cursor
          /\ iterValidityState' = r.state
          /\ prefixMode' = r.prefix
          /\ rangeKey' = span
          /\ rangeKeyChanged' = changed
          /\ out' = runIterCmd(merged, r.cursor, r.state, span, changed, c)
    /\ cmd' = c
    /\ step' = IF step >= 0 /\ step < Len(Blocks[block].script)
                  /\ Blocks[block].script[step + 1].cmd = c
               THEN step + 1 ELSE -1
    /\ UNCHANGED <<block, merged, iterOpts, optViews>>
    /\ UNCHANGED <<cvars, wvars, pvars, fvars>>
    /\ UNCHANGED dvars
    /\ UNCHANGED <<vvars, svars>>

\* The set-options line of an iter command, lines 197-203 and 251-264: the
\* arguments are parsed over iter.opts, SetOptions leaves the iterator without
\* a position and the line printed is that of iter.Valid().
RunSetOptions(c) ==
    /\ optViews # <<>>
    /\ LET opts == parseIterOptions(iterOpts, c) IN
       /\ iterOpts' = opts
       /\ merged' = optViews[opts]
    /\ cursor' = Unpositioned
    /\ iterValidityState' = IterExhausted
    /\ prefixMode' = ""
    /\ rangeKey' = NoSpan
    /\ rangeKeyChanged' = RangeKeyChanged(rangeKey, NoSpan)
    /\ out' = runIterCmd(merged', Unpositioned, IterExhausted, NoSpan,
                         rangeKeyChanged', c)
    /\ cmd' = c
    /\ step' = IF step >= 0 /\ step < Len(Blocks[block].script)
                  /\ Blocks[block].script[step + 1].cmd = c
               THEN step + 1 ELSE -1
    /\ UNCHANGED <<block, optViews>>
    /\ UNCHANGED <<cvars, wvars, pvars, fvars>>
    /\ UNCHANGED dvars
    /\ UNCHANGED <<vvars, svars>>

IFirst == RunIterCmd(CmdFirst)
ILast == RunIterCmd(Cmd("last", NoIKey, NoIKey))
INext == RunIterCmd(CmdNext)
IPrev == RunIterCmd(CmdPrev)
INextPrefix == RunIterCmd(Cmd("next-prefix", NoIKey, NoIKey))
ISeekGE == \E k \in SeekKeys : RunIterCmd(Cmd("seek-ge", k, NoIKey))
ISeekPrefixGE == \E k \in SeekKeys : RunIterCmd(Cmd("seek-prefix-ge", k, NoIKey))
ISeekLT == \E k \in SeekKeys : RunIterCmd(Cmd("seek-lt", k, NoIKey))
ISeekGEWithLimit ==
    \E k \in SeekKeys, l \in LimitKeys : RunIterCmd(Cmd("seek-ge-limit", k, l))
ISeekLTWithLimit ==
    \E k \in SeekKeys, l \in LimitKeys : RunIterCmd(Cmd("seek-lt-limit", k, l))
INextWithLimit == \E l \in LimitKeys : RunIterCmd(Cmd("next-limit", NoIKey, l))
IPrevWithLimit == \E l \in LimitKeys : RunIterCmd(Cmd("prev-limit", NoIKey, l))
ISetOptions ==
    \E c \in {CmdSetOptions("point", "", ""), CmdSetOptions("both", "", ""),
               CmdSetOptions("", "e", "p")} : RunSetOptions(c)

\* ---------------------------------------- external iterator: properties
\* The commands so far are the first lines of the block's script.
OnScript == step > 0
\* The line the test data expects for the last command.
Expected == Blocks[block].script[step].line

\* The script of block b was followed to its end.
ScriptDone(b) == block = b /\ step = Len(Blocks[b].script)

\* The point keys of the files of the block whose most recent version lies
\* in a file older than one with a range deletion covering the key.
UnderNewerRangeDel(b, k) ==
    LET names == Blocks[b].it.files IN
    \E i, j \in DOMAIN names :
       /\ i < j
       /\ \E d \in Built[names[i]].rangeDels : Covers(d, k)
       /\ \E p \in Built[names[j]].points : p.key = k
       /\ \A h \in 1..(j - 1) : \A p \in Built[names[h]].points : p.key # k
HasPointInFiles(b, k) ==
    \E i \in DOMAIN Blocks[b].it.files :
       \E p \in Built[Blocks[b].it.files[i]].points : p.key = k

\* C14: a point key is hidden exactly when a range deletion of a more recent
\* file covers it: a seek to a point key of the files surfaces the point
\* unless a newer range deletion covers it (no mask in force); over the files
\* (2, 1) First, Next give b and exhaustion, over (3, 2, 1) they give a, b, f
\* and exhaustion, as the test data expects.
C14_RangeDelShadows ==
    /\ (cmd.op = "seek-ge" /\ Blocks[block].it.mask = 0
           /\ HasPointInFiles(block, cmd.key)) =>
          ((out.line.valid /\ out.line.key = cmd.key /\ out.line.point # ".")
              <=> ~UnderNewerRangeDel(block, cmd.key))
    /\ (OnScript /\ block \in {3, 4}) => out.line = Expected

\* The iterator over the files (3, 2, 1) surfaced f, which the range deletion
\* of file 2 covers, and then was exhausted.
C14_Witness ==
    /\ ScriptDone(4)
    /\ ~out.line.valid
    /\ cursor = AtEnd

\* C15: with the range keys [a,c)=@2:foo and [c,e)=@3:bar and the newer
\* range-key delete [b,d), the iterator reports [a,b)=@2:foo at a, the point b
\* without a range key, and [d,e)=@3:bar at d, as the test data expects; no
\* position within [b,d) and no reported span reaches into [b,d).
C15_RangeKeyDelete ==
    (block \in {5, 6, 7}) =>
        /\ OnScript => out.line = Expected
        /\ (out.line.valid /\ KeyLeq(IKey("b", 0), out.line.key)
               /\ KeyLt(out.line.key, IKey("d", 0))) => ~out.line.hasRange
        /\ out.line.hasRange =>
              \/ KeyLeq(out.line.end, IKey("b", 0))
              \/ KeyLeq(IKey("d", 0), out.line.start)

\* The whole script of the block files=(5, 4, 3, 2, 1) was followed.
C15_Witness ==
    /\ ScriptDone(5)
    /\ ~out.line.valid

\* C16: spans that abut or overlap and carry the same range keys are reported
\* as one span ([a,g) and [e,k), both @5=foo, as [a,k)), and no sequence of
\* seeks and steps returns a span without range keys as a range-key entry: a
\* reported span has range keys and is not empty, a position without a point
\* has one, and the span reported is no part of a larger span with the same
\* range keys.
C16_Defragmented ==
    /\ (OnScript /\ block \in {6, 7, 8}) => out.line = Expected
    /\ out.line.hasRange =>
          /\ out.line.keys # <<>>
          /\ KeyLt(out.line.start, out.line.end)
          /\ RangeKeysAt(Blocks[block].it, out.line.end)
                # {out.line.keys[i] : i \in DOMAIN out.line.keys}
          /\ \A k \in KeySpace :
                KeyLt(k, out.line.start) =>
                   \/ RangeKeysAt(Blocks[block].it, k)
                         # {out.line.keys[i] : i \in DOMAIN out.line.keys}
                   \/ \E c \in KeySpace :
                         /\ KeyLt(k, c) /\ KeyLeq(c, out.line.start)
                         /\ RangeKeysAt(Blocks[block].it, c)
                               # RangeKeysAt(Blocks[block].it, k)
    /\ (out.line.valid /\ out.line.point = ".") =>
          out.line.hasRange /\ out.line.keys # <<>>

\* The spans [a,g) and [e,k) were reported as [a,k).
C16_Witness ==
    /\ block = 8
    /\ out.line.hasRange
    /\ out.line.start = IKey("a", 0)
    /\ out.line.end = IKey("k", 0)
    /\ out.line.keys = <<RK(5, "foo")>>

C18_RangeKeyChanged ==
    [][(cmd' # cmd \/ cursor' # cursor \/ out' # out) =>
         LET it == Blocks[block].it
             old == IF Valid(iterValidityState)
                    THEN SpanAt(it, cursor.key) ELSE NoSpan
             new == IF Valid(iterValidityState')
                    THEN SpanAt(it, cursor'.key) ELSE NoSpan
         IN /\ rangeKeyChanged' <=> (old # new)
            /\ out'.line.valid => out'.line.updated = rangeKeyChanged'
            /\ (step' > 0 /\ block \in {5, 9}) =>
                  out'.line.updated = Blocks[block].script[step'].line.updated]_vars

\* A step between two points under the same span [a,k) was not flagged.
C18_Witness ==
    /\ block = 9
    /\ step = 3
    /\ out.line.key = IKey("e", 5)
    /\ out.line.hasRange
    /\ ~rangeKeyChanged

\* C19: with the mask suffix @7 and the range key [a,k) @5=foo, the points
\* a@4 and c@2 (inside the span, suffix below @5) are hidden and d@9, e@5
\* (inside, suffix at or above @5), k@3 and p@4 (outside) are surfaced, as the
\* test data expects.
C19_Masking ==
    block = 9 =>
        /\ OnScript => out.line = Expected
        /\ (out.line.valid /\ out.line.point # ".") =>
              out.line.key \in {IKey("d", 9), IKey("e", 5), IKey("k", 3), IKey("p", 4)}
        /\ (cmd.op = "seek-ge" /\ cmd.key = IKey("c", 0)) =>
              (out.line.key = IKey("c", 0) /\ out.line.point = ".")

\* The masked iterator went from the span start a past a@4 and c@2 to d@9.
C19_Witness ==
    /\ block = 9
    /\ step = 2
    /\ out.line.key = IKey("d", 9)
    /\ out.line.point = "v"

Shown(mv, r) ==
    [key |-> r.cursor.key,
     point |-> IF Valid(r.state) THEN mv.point[r.cursor.key] ELSE NoPoint,
     span |-> IF Valid(r.state) THEN mv.span[r.cursor.key] ELSE NoSpan]

C28_SetOptions ==
    /\ cmd.op \in {"set-options", "set-options key-types=point",
                   "set-options key-types=both"} =>
          /\ ~Valid(iterValidityState)
          /\ cursor = Unpositioned
          /\ ~out.line.valid
    /\ iterOpts.keyTypes = "point" => rangeKey = NoSpan /\ ~out.line.hasRange
    /\ (Valid(iterValidityState) /\ iterOpts.lower # NoIKey) =>
          KeyLeq(iterOpts.lower, cursor.key)
    /\ (Valid(iterValidityState) /\ iterOpts.upper # NoIKey) =>
          KeyLt(cursor.key, iterOpts.upper)
    /\ (block = SetOptionsBlock /\ OnScript) =>
          /\ out.line = Expected
          /\ ~out.mismatchedValid /\ ~out.mismatchedHas
    /\ (block = SetOptionsBlock /\ step = 3) => iterOpts = Opts("point", NoIKey, NoIKey)
    /\ (block = SetOptionsBlock /\ step = 6) =>
          iterOpts = Opts("point", IKey("e", 0), IKey("p", 0))

\* The script of lines 182-195 was followed to its end: the options were
\* changed at c@2 and the iterator then stepped from e@5 to k@3.
C28_Witness ==
    /\ ScriptDone(SetOptionsBlock)
    /\ cursor = At(IKey("k", 3))
    /\ rangeKey = NoSpan

\* ----------------------------------------------------- define command: model
\* The sequence number Open leaves in logSeqNum and visibleSeqNum of a new DB.
SeqNumStart == 10

\* An internal key of a define script: a user key and a sequence number; nil
\* is the key of no user key.
DKey(u, n) == [ukey |-> u, seqnum |-> n]
NilKey == DKey(0, 0)

\* base.InternalCompare: user keys ascending, then sequence numbers descending.
InternalCompare(a, b) ==
    IF a.ukey < b.ukey THEN -1
    ELSE IF a.ukey > b.ukey THEN 1
    ELSE IF a.seqnum > b.seqnum THEN -1
    ELSE IF a.seqnum < b.seqnum THEN 1
    ELSE 0

\* The keys of a line of the script: sequence numbers below, at and above
\* the one Open left.
MemSamples ==
    {{}, {DKey(1, 5)}, {DKey(1, 12), DKey(2, 10)}, {DKey(2, 12), DKey(3, 11)}}

\* The lines of td.Input, lines 948-998: "mem" (lvl -1) or "L<lvl>" with
\* optional start= and end=, and the keys.
DLines ==
    [lvl : {-1}, from : {NilKey}, to : {NilKey}, data : MemSamples]
    \cup
    [lvl : {0, 1}, from : {NilKey}, to : {NilKey}, data : MemSamples]
    \cup
    [lvl : {0, 1}, from : {DKey(1, 12)}, to : {DKey(3, 5)}, data : MemSamples]

\* How many lines a script has at most.
MaxLines == 2

\* The smallest and the largest key of a memtable, and its largest sequence
\* number.
SmallestKey(ks) == CHOOSE k \in ks : \A j \in ks : InternalCompare(k, j) <= 0
LargestKey(ks) == CHOOSE k \in ks : \A j \in ks : InternalCompare(k, j) >= 0
LargestSeq(ks) == CHOOSE n \in {k.seqnum : k \in ks} : \A k \in ks : k.seqnum <= n

\* runCompaction of the flush of one memtable with no size limit (line 879):
\* no file for an empty memtable, else one file holding all of its keys.
FlushOutput(ks, fileNum) ==
    IF ks = {} THEN <<>>
    ELSE <<[FileNum |-> fileNum, Smallest |-> SmallestKey(ks),
            Largest |-> LargestKey(ks), LargestSeqNum |-> LargestSeq(ks)]>>

\* Lines 887-894: the bounds of the line replace those of the file.
OverrideBounds(f, from, to) ==
    [f EXCEPT !.Smallest = IF from # NilKey THEN from ELSE @,
              !.Largest = IF to # NilKey THEN to ELSE @]

\* Lines 885 and 895-897: the sequence number above every file of the flush.
RECURSIVE Ratchet(_, _)
Ratchet(largest, files) ==
    IF files = <<>> THEN largest
    ELSE Ratchet(IF largest <= Head(files).LargestSeqNum
                 THEN Head(files).LargestSeqNum + 1 ELSE largest,
                 Tail(files))

\* (mutant) logSeqNum is left as it is.
StoreLogSeqNumNever(log, largest) == log

\* Lines 908-910: logSeqNum is raised to largestSeqNum, never lowered.
StoreLogSeqNum(log, largest) == IF log < largest THEN largest ELSE log

\* Lines 911-913: visibleSeqNum is raised to largestSeqNum, never lowered.
StoreVisibleSeqNum(visible, largest) == IF visible < largest THEN largest ELSE visible

\* (mutant) the error of a flush is dropped.
ReturnsErrNever(err) == FALSE

\* Lines 953, 968 and 1039: if err := maybeFlush(); err != nil { return }.
ReturnsErr(err) == err # ""

\* Lines 898-901: the entries the flush appends to ve.NewFiles.
NewFileEntries(files, lvl, from, to) ==
    [i \in 1..Len(files) |-> [Level |-> lvl, Meta |-> OverrideBounds(files[i], from, to)]]

\* maybeFlush, lines 859-916, up to the entries and largestSeqNum: failed
\* tells whether newFlush or runCompaction returned an error.
maybeFlush(failed, lvl, ks, from, to, fileNum, log) ==
    IF lvl < 0 THEN [err |-> "", entries |-> <<>>, largest |-> log]
    ELSE IF failed THEN [err |-> "flush failed", entries |-> <<>>, largest |-> log]
    ELSE [err |-> "",
          entries |-> NewFileEntries(FlushOutput(ks, fileNum), lvl, from, to),
          largest |-> Ratchet(log, FlushOutput(ks, fileNum))]

\* No job holds the log lock.
NoJob == "none"

\* What a get command prints for a key that is not found, and the result of
\* no get command.
NotFound == 0
NoGet == [ukey |-> 0, seqnum |-> 0, val |-> NotFound]

\* The levels of a version, and the version of a DB just opened.
NumLevels == 7
Levels == 0..(NumLevels - 1)
EmptyVersion == [l \in Levels |-> <<>>]

\* (mutant) a file is put at the end of its level.
InsertFileAtEnd(files, f) == Append(files, f)

\* A file is put into a level >= 1 at its place by smallest key.
InsertFile(files, f) ==
    LET n == Cardinality({i \in 1..Len(files) :
                            InternalCompare(files[i].Smallest, f.Smallest) <= 0})
    IN SubSeq(files, 1, n) \o <<f>> \o SubSeq(files, n + 1, Len(files))

\* applyEdit of a version edit that adds files: level 0 in the order of the
\* edit, the levels >= 1 sorted.  The bounds are not validated.
RECURSIVE applyEdit(_, _)
applyEdit(base, newFiles) ==
    IF newFiles = <<>> THEN base
    ELSE LET e == Head(newFiles)
             l == e.Level
         IN applyEdit([base EXCEPT ![l] = IF l = 0 THEN Append(@, e.Meta)
                                                  ELSE InsertFile(@, e.Meta)],
                      Tail(newFiles))

\* The version set of a DB Open has returned.
DOpen ==
    /\ logSeqNum = SeqNumStart
    /\ visibleSeqNum = SeqNumStart
    /\ currentVersion = EmptyVersion

\* The define command at pc, no line read ("": no define command runs).
DCommand(pc) ==
    /\ level = -1
    /\ mem = {}
    /\ boundStart = NilKey
    /\ boundEnd = NilKey
    /\ veNewFiles = <<>>
    /\ largestSeqNum = 0
    /\ flushes = 0
    /\ flushFailed = FALSE
    /\ nlines = 0
    /\ dpc = pc
    /\ derr = ""

\* Open has returned and the define command holds d.mu.
DInit == DOpen /\ DCommand("line")

\* No DB is open.
DUnused ==
    /\ logSeqNum = 0
    /\ visibleSeqNum = 0
    /\ currentVersion = <<>>
    /\ DCommand("")

\* No job applies an edit and nobody reads.
VUnused ==
    /\ logLockHolder = NoJob
    /\ apc = <<>>
    /\ abase = <<>>
    /\ anew = <<>>
    /\ aedit = <<>>
    /\ manifest = <<>>
    /\ readerView = <<>>
    /\ nedits = 0

\* No DB is read through snapshots.
SUnused ==
    /\ snapshots = {}
    /\ dbMem = {}
    /\ dbFiles = {}
    /\ taken = <<>>
    /\ got = NoGet

DOthers ==
    /\ UNCHANGED <<cvars, wvars, pvars, fvars>>
    /\ UNCHANGED ivars
    /\ UNCHANGED <<vvars, svars>>

\* maybeFlush of a line that named a level, lines 859-910: the memtable is
\* flushed, its files go to ve.NewFiles and logSeqNum is raised; on an error
\* the command returns.
DFlush(failed) ==
    /\ dpc = "line"
    /\ level >= 0
    /\ LET r == maybeFlush(failed, level, mem, boundStart, boundEnd,
                           flushes + 1, logSeqNum)
       IN /\ flushes' = flushes + 1
          /\ flushFailed' = (flushFailed \/ r.err # "")
          /\ IF ReturnsErr(r.err)
             THEN /\ dpc' = "failed"
                  /\ derr' = r.err
                  /\ UNCHANGED <<veNewFiles, largestSeqNum, logSeqNum>>
             ELSE /\ dpc' = "stored"
                  /\ veNewFiles' = veNewFiles \o r.entries
                  /\ largestSeqNum' = r.largest
                  /\ logSeqNum' = StoreLogSeqNum(logSeqNum, r.largest)
                  /\ UNCHANGED derr
    /\ UNCHANGED <<visibleSeqNum, currentVersion, level, mem, boundStart, boundEnd,
                   nlines>>
    /\ DOthers

\* maybeFlush, lines 911-915: visibleSeqNum is raised after logSeqNum.
DRatchetVisible ==
    /\ dpc = "stored"
    /\ visibleSeqNum' = StoreVisibleSeqNum(visibleSeqNum, largestSeqNum)
    /\ level' = -1
    /\ dpc' = "line"
    /\ UNCHANGED <<logSeqNum, currentVersion, mem, boundStart, boundEnd, veNewFiles,
                   largestSeqNum, flushes, flushFailed, nlines, derr>>
    /\ DOthers

\* A line of the script, lines 948-1037, its maybeFlush made: the level, the
\* bounds and the keys of the line.
DLine(line) ==
    /\ dpc = "line"
    /\ level < 0
    /\ nlines < MaxLines
    /\ nlines' = nlines + 1
    /\ level' = line.lvl
    /\ boundStart' = line.from
    /\ boundEnd' = line.to
    /\ mem' = IF line.lvl < 0 THEN mem \cup line.data ELSE line.data
    /\ UNCHANGED <<logSeqNum, visibleSeqNum, currentVersion, veNewFiles, largestSeqNum,
                   flushes, flushFailed, dpc, derr>>
    /\ DOthers

\* The end of the script, lines 1039-1055, its maybeFlush made: the edit is
\* logged and applied if it has files; failed tells whether logAndApply
\* returned an error.
DFinish(failed) ==
    /\ dpc = "line"
    /\ level < 0
    /\ IF Len(veNewFiles) > 0
       THEN IF failed
            THEN /\ dpc' = "failed"
                 /\ derr' = "logAndApply failed"
                 /\ UNCHANGED currentVersion
            ELSE /\ dpc' = "done"
                 /\ currentVersion' = applyEdit(currentVersion, veNewFiles)
                 /\ UNCHANGED derr
       ELSE dpc' = "done" /\ UNCHANGED <<currentVersion, derr>>
    /\ UNCHANGED <<logSeqNum, visibleSeqNum, level, mem, boundStart, boundEnd,
                   veNewFiles, largestSeqNum, flushes, flushFailed, nlines>>
    /\ DOthers

\* ------------------------------------------------ define command: properties
\* C21: the visible sequence number never exceeds the log sequence number, and
\* the ratchet of the define command lowers neither.
C21_VisibleAtMostLog ==
    /\ [](visibleSeqNum <= logSeqNum)
    /\ [][logSeqNum' >= logSeqNum /\ visibleSeqNum' >= visibleSeqNum]_vars

\* A flush of keys above the log sequence number raised both counters above
\* them.
C21_Witness ==
    /\ dpc = "line"
    /\ flushes > 0
    /\ logSeqNum = 13
    /\ visibleSeqNum = 13

\* C23: a flush that fails publishes nothing: the command returns the error
\* before logAndApply and the current version stays the one of before.
C23_FailedFlushPublishesNothing ==
    flushFailed =>
        /\ dpc = "failed"
        /\ derr # ""
        /\ currentVersion = EmptyVersion

\* A flush failed after an earlier one had put a file into the edit.
C23_Witness ==
    /\ flushFailed
    /\ dpc = "failed"
    /\ Len(veNewFiles) > 0
    /\ currentVersion = EmptyVersion

\* The files of a level are in strictly increasing order and do not overlap.
OrderedLevel(files) ==
    \A i \in 1..(Len(files) - 1) :
       InternalCompare(files[i].Largest, files[i + 1].Smallest) < 0
Ordered(v) == \A l \in Levels \ {0} : OrderedLevel(v[l])

\* No two files the edit puts at one level >= 1 overlap.
DisjointEdit(newFiles) ==
    \A i, j \in 1..Len(newFiles) :
       (i # j /\ newFiles[i].Level = newFiles[j].Level /\ newFiles[i].Level >= 1) =>
           \/ InternalCompare(newFiles[i].Meta.Largest, newFiles[j].Meta.Smallest) < 0
           \/ InternalCompare(newFiles[j].Meta.Largest, newFiles[i].Meta.Smallest) < 0

Jobs == {"define", "compaction"}
JobLevel(a) == IF a = "define" THEN 1 ELSE 2

\* How many edits the jobs build at most.
MaxEdits == 3

\* The n-th edit built: two new files at the level of the job.
JobFile(n) ==
    [FileNum |-> n, Smallest |-> DKey(n, SeqNumStart), Largest |-> DKey(n, SeqNumStart),
     LargestSeqNum |-> SeqNumStart]
JobEdit(a, n) ==
    <<[Level |-> JobLevel(a), Meta |-> JobFile(2 * n - 1)],
      [Level |-> JobLevel(a), Meta |-> JobFile(2 * n)]>>

\* (mutant) logLock does not wait.
LockFreeAlways(holder) == TRUE

\* logLock takes the log lock once no job holds it.
LockFree(holder) == holder = NoJob

\* The versions of the edits logged so far, applied whole and in order.
RECURSIVE ApplyAll(_, _)
ApplyAll(edits, n) ==
    IF n = 0 THEN EmptyVersion ELSE applyEdit(ApplyAll(edits, n - 1), edits[n])

\* The jobs are idle and a reader holds the version of the DB just opened.
VInit ==
    /\ logLockHolder = NoJob
    /\ apc = [a \in Jobs |-> "idle"]
    /\ abase = [a \in Jobs |-> EmptyVersion]
    /\ anew = [a \in Jobs |-> EmptyVersion]
    /\ aedit = [a \in Jobs |-> <<>>]
    /\ manifest = <<>>
    /\ readerView = EmptyVersion
    /\ nedits = 0

DRest ==
    <<logSeqNum, visibleSeqNum, level, mem, boundStart, boundEnd, veNewFiles,
      largestSeqNum, flushes, flushFailed, nlines, dpc, derr>>

VOthers ==
    /\ UNCHANGED <<cvars, wvars, pvars, fvars>>
    /\ UNCHANGED ivars
    /\ UNCHANGED svars
    /\ UNCHANGED DRest

\* Line 1045: a job with an edit calls logLock.
VLogLockCall(a) ==
    /\ apc[a] = "idle"
    /\ nedits < MaxEdits
    /\ nedits' = nedits + 1
    /\ aedit' = [aedit EXCEPT ![a] = JobEdit(a, nedits + 1)]
    /\ apc' = [apc EXCEPT ![a] = "waiting"]
    /\ UNCHANGED <<logLockHolder, abase, anew, manifest, readerView, currentVersion>>
    /\ VOthers

\* logLock returns: the job holds the lock, its base is the current version.
VLogLock(a) ==
    /\ apc[a] = "waiting"
    /\ LockFree(logLockHolder)
    /\ logLockHolder' = a
    /\ abase' = [abase EXCEPT ![a] = currentVersion]
    /\ apc' = [apc EXCEPT ![a] = "locked"]
    /\ UNCHANGED <<anew, aedit, manifest, readerView, nedits, currentVersion>>
    /\ VOthers

\* logAndApply (a): the edit is appended to the manifest; if that fails
\* logAndApply returns the error and the lock is released (lines 1046-1050).
VLog(a, failed) ==
    /\ apc[a] = "locked"
    /\ IF failed
       THEN /\ apc' = [apc EXCEPT ![a] = "idle"]
            /\ logLockHolder' = NoJob
            /\ UNCHANGED manifest
       ELSE /\ apc' = [apc EXCEPT ![a] = "logged"]
            /\ manifest' = Append(manifest, aedit[a])
            /\ UNCHANGED logLockHolder
    /\ UNCHANGED <<abase, anew, aedit, readerView, nedits, currentVersion>>
    /\ VOthers

\* logAndApply (b): the new version is computed from the base, which is not
\* changed.
VApply(a) ==
    /\ apc[a] = "logged"
    /\ anew' = [anew EXCEPT ![a] = applyEdit(abase[a], aedit[a])]
    /\ apc' = [apc EXCEPT ![a] = "computed"]
    /\ UNCHANGED <<logLockHolder, abase, aedit, manifest, readerView, nedits,
                   currentVersion>>
    /\ VOthers

\* logAndApply (c): the current version pointer is swapped and the lock
\* released.
VSwap(a) ==
    /\ apc[a] = "computed"
    /\ currentVersion' = anew[a]
    /\ logLockHolder' = NoJob
    /\ apc' = [apc EXCEPT ![a] = "idle"]
    /\ UNCHANGED <<abase, anew, aedit, manifest, readerView, nedits>>
    /\ VOthers

\* A reader loads the current version pointer.
VRead ==
    /\ readerView' = currentVersion
    /\ readerView' # readerView
    /\ UNCHANGED <<logLockHolder, apc, abase, anew, aedit, manifest, nedits,
                   currentVersion>>
    /\ VOthers

\* ----------------------------------------------- version set: properties
\* The jobs between logLock and the return of logAndApply.
InLogAndApply == {a \in Jobs : apc[a] \in {"locked", "logged", "computed"}}

\* C22: at most one logAndApply is in progress, made by the holder of the log
\* lock; other jobs wait; the edit is applied to the version that was current
\* when the lock was taken, which still is; the current version and what a
\* reader sees are versions of whole edits, never of a part of one.
C22_OneLogAndApply ==
    /\ Cardinality(InLogAndApply) <= 1
    /\ \A a \in InLogAndApply : logLockHolder = a /\ abase[a] = currentVersion
    /\ InLogAndApply = {} => logLockHolder = NoJob
    /\ currentVersion =
          ApplyAll(manifest,
                   Len(manifest) - Cardinality({a \in Jobs : apc[a] \in {"logged", "computed"}}))
    /\ \E n \in 0..Len(manifest) : readerView = ApplyAll(manifest, n)

\* The define command waits for the log lock while the compaction has
\* computed the version of its edit from that of an edit applied before.
C22_Witness ==
    /\ apc["define"] = "waiting"
    /\ apc["compaction"] = "computed"
    /\ Len(manifest) = 2
    /\ Len(currentVersion[1]) = 2
    /\ readerView = EmptyVersion

\* -------------------------------------------------- snapshot reads: model
\* The user keys written, and how many writes are committed at most.
SKeys == {1, 2}
MaxWrites == 2

\* base.SeqNumMax (line 44) stands above every sequence number assigned.
SeqNumMax == SeqNumStart + MaxWrites + 1

\* A key of the DB: a value of 0 is that of a deletion tombstone.
SKey(u, n, v) == [ukey |-> u, seqnum |-> n, val |-> v]

\* (mutant) the seq argument is not looked at.
GetSeqNumMax(hasSeq, n) == SeqNumMax

\* runGetCmd, lines 42-50: the sequence number the get command reads at.
GetSeqNum(hasSeq, n) == IF hasSeq THEN n ELSE SeqNumMax

\* Snapshot.Get (spec 4.6): of the keys of the user key with a sequence number
\* <= S the newest one is surfaced, unless it is a tombstone.
Get(ks, u, S) ==
    LET vis == {k \in ks : k.ukey = u /\ k.seqnum <= S} IN
    IF vis = {} THEN NotFound
    ELSE (CHOOSE k \in vis : \A j \in vis : j.seqnum <= k.seqnum).val

\* runGetCmd, lines 41-63, for one key of td.Input.
runGetCmd(ks, u, hasSeq, n) == Get(ks, u, GetSeqNum(hasSeq, n))

\* (mutant) the snapshots keep no key.
ObsoleteNoSnapshots(k, ks, snaps) ==
    \E j \in ks : j.ukey = k.ukey /\ j.seqnum > k.seqnum

\* Spec 4.4: a key is obsolete if the inputs hold a newer key of its user key
\* and no listed snapshot lies between the two.
Obsolete(k, ks, snaps) ==
    \E j \in ks :
       /\ j.ukey = k.ukey
       /\ j.seqnum > k.seqnum
       /\ ~\E S \in snaps : k.seqnum <= S /\ S < j.seqnum

\* The keys a flush or a compaction of the keys ks writes.
Retained(ks, snaps) == {k \in ks : ~Obsolete(k, ks, snaps)}

\* What a snapshot at S reads for every user key.
ReadAll(ks, S) == [u \in SKeys |-> Get(ks, u, S)]

\* A DB just opened: no key, no snapshot.
SInit ==
    /\ snapshots = {}
    /\ dbMem = {}
    /\ dbFiles = {}
    /\ taken = <<>>
    /\ got = NoGet

SOthers ==
    /\ UNCHANGED <<cvars, wvars, pvars, fvars>>
    /\ UNCHANGED ivars
    /\ UNCHANGED vvars
    /\ UNCHANGED <<currentVersion, level, mem, boundStart, boundEnd, veNewFiles,
                   largestSeqNum, flushes, flushFailed, nlines, dpc, derr>>

\* A write is committed with the next sequence number, which becomes visible.
SWrite(u, del) ==
    /\ logSeqNum < SeqNumStart + MaxWrites
    /\ logSeqNum' = logSeqNum + 1
    /\ visibleSeqNum' = logSeqNum + 1
    /\ dbMem' = dbMem \cup {SKey(u, logSeqNum + 1, IF del THEN NotFound ELSE logSeqNum + 1)}
    /\ UNCHANGED <<snapshots, dbFiles, taken, got>>
    /\ SOthers

\* Lines 836-840: a snapshot at the visible sequence number is pushed to the
\* list of snapshots.
SPushSnapshot ==
    /\ visibleSeqNum \notin snapshots
    /\ snapshots' = snapshots \cup {visibleSeqNum}
    /\ taken' = [S \in snapshots' |->
                   IF S = visibleSeqNum THEN ReadAll(dbMem \cup dbFiles, S) ELSE taken[S]]
    /\ UNCHANGED <<logSeqNum, visibleSeqNum, dbMem, dbFiles, got>>
    /\ SOthers

\* A snapshot is closed and leaves the list.
SCloseSnapshot(S) ==
    /\ S \in snapshots
    /\ snapshots' = snapshots \ {S}
    /\ taken' = [T \in snapshots' |-> taken[T]]
    /\ UNCHANGED <<logSeqNum, visibleSeqNum, dbMem, dbFiles, got>>
    /\ SOthers

\* The memtable is flushed to an sstable.
SFlush ==
    /\ dbMem # {}
    /\ dbFiles' = dbFiles \cup Retained(dbMem, snapshots)
    /\ dbMem' = {}
    /\ UNCHANGED <<logSeqNum, visibleSeqNum, snapshots, taken, got>>
    /\ SOthers

\* The sstables holding the user keys us are compacted.
SCompact(us) ==
    /\ LET in == {k \in dbFiles : k.ukey \in us} IN
       /\ Retained(in, snapshots) # in
       /\ dbFiles' = (dbFiles \ in) \cup Retained(in, snapshots)
    /\ UNCHANGED <<logSeqNum, visibleSeqNum, snapshots, dbMem, taken, got>>
    /\ SOthers

\* A get command, lines 41-63: without seq, or with the seq of a listed
\* snapshot.
SGet(u, hasSeq, n) ==
    /\ hasSeq => n \in snapshots
    /\ got' = SKey(u, GetSeqNum(hasSeq, n), runGetCmd(dbMem \cup dbFiles, u, hasSeq, n))
    /\ got' # got
    /\ UNCHANGED <<logSeqNum, visibleSeqNum, snapshots, dbMem, dbFiles, taken>>
    /\ SOthers

\* ----------------------------------------------- snapshot reads: properties
\* C25: a read of any key through a snapshot at S returns what it returned
\* when the snapshot was taken, whatever writes, flushes and compactions came
\* later, as long as the snapshot is listed.
C25_SnapshotReads ==
    /\ \A S \in snapshots : \A u \in SKeys :
          runGetCmd(dbMem \cup dbFiles, u, TRUE, S) = taken[S][u]
    /\ got.seqnum \in snapshots => got.val = taken[got.seqnum][got.ukey]

\* A get through a snapshot read the value of the first write after the key
\* had been written again, flushed and compacted.
C25_Witness ==
    /\ snapshots = {SeqNumStart + 1}
    /\ got = SKey(1, SeqNumStart + 1, SeqNumStart + 1)
    /\ dbMem = {}
    /\ dbFiles = {SKey(1, SeqNumStart + 1, SeqNumStart + 1), SKey(1, SeqNumStart + 2, NotFound)}
    /\ runGetCmd(dbFiles, 1, FALSE, 0) = NotFound

\* ------------------------------------------------ specification: SpecW
\* A compaction that writes new blob files.
InitW == CInit /\ WInit /\ PUnused /\ FUnused /\ IUnused
         /\ DUnused /\ VUnused /\ SUnused
NextW == WAdd \/ WFinishOutput
SpecW == InitW /\ [][NextW]_vars

\* ------------------------------------------------ specification: SpecP
\* A compaction that preserves the blob references of its inputs.
InitP == CInit /\ PInit /\ WUnused /\ FUnused /\ IUnused
         /\ DUnused /\ VUnused /\ SUnused
NextP == PAdd \/ PFinishOutput
SpecP == InitP /\ [][NextP]_vars

\* ------------------------------------------------ specification: SpecF
\* A reader that opens an sstable.
InitF == CInit /\ WUnused /\ PUnused /\ FInit /\ IUnused
         /\ DUnused /\ VUnused /\ SUnused
NextF == FReadFooter
SpecF == InitF /\ [][NextF]_vars

\* ------------------------------------------------ specification: SpecE
\* A writer that writes the footer of a table, and a reader that opens it.
InitE == CInit /\ WUnused /\ PUnused /\ EInit /\ IUnused
         /\ DUnused /\ VUnused /\ SUnused
NextE == EEncode \/ FReadFooter
SpecE == InitE /\ [][NextE]_vars

\* ------------------------------------------------ specification: SpecD
\* The define command builds the LSM of a new DB.
InitD == CInit /\ WUnused /\ PUnused /\ FUnused /\ IUnused
         /\ DInit /\ VUnused /\ SUnused
NextD ==
    \/ \E failed \in BOOLEAN : DFlush(failed)
    \/ DRatchetVisible
    \/ \E line \in DLines : DLine(line)
    \/ \E failed \in BOOLEAN : DFinish(failed)
SpecD == InitD /\ [][NextD]_vars

\* ------------------------------------------------ specification: SpecO
\* The external iterator of the iter command whose options are changed.
InitO == CInit /\ WUnused /\ PUnused /\ FUnused /\ OInit
         /\ DUnused /\ VUnused /\ SUnused
NextO ==
    \/ IFirst \/ ILast \/ INext \/ IPrev
    \/ ISeekGE \/ ISeekLT
    \/ ISetOptions
SpecO == InitO /\ [][NextO]_vars

\* ------------------------------------------------ specification: SpecV
\* Two jobs apply version edits to the version set of a DB while a reader
\* loads the current version.
InitV == CInit /\ WUnused /\ PUnused /\ FUnused /\ IUnused
         /\ DOpen /\ DCommand("") /\ VInit /\ SUnused
NextV ==
    \/ \E a \in Jobs : VLogLockCall(a)
    \/ \E a \in Jobs : VLogLock(a)
    \/ \E a \in Jobs, failed \in BOOLEAN : VLog(a, failed)
    \/ \E a \in Jobs : VApply(a)
    \/ \E a \in Jobs : VSwap(a)
    \/ VRead
SpecV == InitV /\ [][NextV]_vars

\* ------------------------------------------------ specification: SpecS
\* Writes, flushes and compactions of a DB read through snapshots.
InitS == CInit /\ WUnused /\ PUnused /\ FUnused /\ IUnused
         /\ DOpen /\ DCommand("") /\ VUnused /\ SInit
NextS ==
    \/ \E u \in SKeys, del \in BOOLEAN : SWrite(u, del)
    \/ SPushSnapshot
    \/ \E S \in snapshots : SCloseSnapshot(S)
    \/ SFlush
    \/ \E us \in SUBSET SKeys : SCompact(us)
    \/ \E u \in SKeys, hasSeq \in BOOLEAN, n \in snapshots \cup {0} : SGet(u, hasSeq, n)
SpecS == InitS /\ [][NextS]_vars

\* ------------------------------------------------ specification: SpecI
\* The iter commands of the external iterator test.
InitI == CInit /\ WUnused /\ PUnused /\ FUnused /\ IInit
         /\ DUnused /\ VUnused /\ SUnused
NextI ==
    \/ IFirst \/ ILast \/ INext \/ IPrev \/ INextPrefix
    \/ ISeekGE \/ ISeekPrefixGE \/ ISeekLT
    \/ ISeekGEWithLimit \/ ISeekLTWithLimit \/ INextWithLimit \/ IPrevWithLimit
SpecI == InitI /\ [][NextI]_vars

====
